---- MODULE Spec2Model ----
(***************************************************************************)
(* Model of the zwidget toolkit core: the widget tree (hierarchy, dirty    *)
(* flags, hit testing, event routing, rendering) of core/widget.hpp and    *)
(* the event dispatcher (queue, listeners, counters) of                    *)
(* core/event_dispatcher.hpp.                                              *)
(***************************************************************************)
EXTENDS Integers, Sequences, FiniteSets, TLC

\* ------------------------------------------------------------------ bounds
\* at most MaxEdges entries over all children_ vectors
MaxEdges == 2
\* hit-test points have coordinates 0..MaxCoord
MaxCoord == 2
\* push_event is called from outside at most MaxPush times
MaxPush == 3
\* set_max_queue_size is given 0..MaxQ
MaxQ == 2
\* at most MaxListeners registrations
MaxListeners == 3
\* listener priorities are 1..MaxPrio
MaxPrio == 2
\* at most MaxLayouts layout passes
MaxLayouts == 2

\* a transform is the product of at most MaxFactors factors
MaxFactors == 1
\* at most MaxClips clips are pushed
MaxClips == 1
\* at most MaxPainted primitives are drawn after a clear
MaxPainted == 1

\* at most MaxClicks on_click invocations are counted
MaxClicks == 2

\* --------------------------------------------------------------- universe
\* the widget objects that exist; Null is the null pointer
Null == 0
Widgets == {1, 2, 3}
NumWidgets == Cardinality(Widgets)
Coords == 0..MaxCoord
Points == [x : Coords, y : Coords]

\* widget tree: the fields of every Widget, whether a call failed to return
\* (unbounded recursion), and the last query's return value
VARIABLES parent, children, bounds, state, hooks, hung, ret

wvars == <<parent, children, bounds, state, hooks, hung, ret>>

\* event dispatcher: the fields of EventDispatcher
VARIABLES event_queue, listeners, global_listeners, enabled,
          events_processed, events_dropped, max_queue_size
\* dispatcher bookkeeping for the properties: whether process_events failed
\* to return, the last call with the listeners it invoked, the number of
\* push_event calls, of events discarded by clear_queue, of counts zeroed
\* by reset_stats, of rejected pushes and dequeued events since the last
\* reset_stats, the ids dispatched by process_events, registrations so far
VARIABLES dhung, dcall, pushed, cleared, lost, rejected, dequeued, plog, nextLid
\* push_event calls and clear_queue discards since the last reset_stats
VARIABLES pushedSince, clearedSince

dvars == <<event_queue, listeners, global_listeners, enabled,
           events_processed, events_dropped, max_queue_size,
           dhung, dcall, pushed, cleared, lost, rejected, dequeued, plog,
           nextLid, pushedSince, clearedSince>>

\* layout: the class of every widget object (Widget, HBox or VBox), the
\* fields of LayoutContainer, the layout hints of Widget, and the number of
\* layout passes made so far
VARIABLES kind, spacing, padding, box_alignment, alignment, min_size,
          max_size, preferred_size, laid

lvars == <<kind, spacing, padding, box_alignment, alignment, min_size,
           max_size, preferred_size, laid>>

\* an Event object (the variant data_ and the tag type_), and how it was
\* last built
VARIABLES evt, built

evars == <<evt, built>>

\* for every registration, whether it was made by a ScopedEventListener
\* object and whether that object is alive or destroyed
VARIABLES scoped

svars == <<scoped>>

\* the D2DContext object, with the state of its device context, and the
\* outcome of the last call made on it
VARIABLES ctx, cret

cvars == <<ctx, cret>>

\* Button: the number of times on_click_ was invoked, and the last mouse
\* event delivered to the button with what it returned
VARIABLES clicks, bret

bvars == <<clicks, bret>>

\* CheckBox: the fields checked_, tristate_ and state_ of a CheckBox object,
\* and the last call made on it with the number of times it invoked
\* on_checked_changed_
VARIABLES checked, tristate, cb_state, kret

kvars == <<checked, tristate, cb_state, kret>>

vars == <<wvars, dvars, lvars, evars, svars, cvars, bvars, kvars>>

\* ------------------------------------------------------- geometry helpers
Pt(px, py) == [x |-> px, y |-> py]
Rc(rx, ry, rw, rh) == [x |-> rx, y |-> ry, w |-> rw, h |-> rh]

\* Rectf default construction: pos (0,0), size (0,0)
DefaultRect == Rc(0, 0, 0, 0)

\* rectangles handed to set_bounds
RectInputs == { Rc(0, 0, MaxCoord, MaxCoord), Rc(1, 0, MaxCoord - 1, MaxCoord) }

left(r) == r.x
top(r) == r.y
right(r) == r.x + r.w
bottom(r) == r.y + r.h

\* basic_rect::contains, half-open on both axes
rect_contains(r, p) ==
    /\ p.x >= left(r)
    /\ p.x < right(r)
    /\ p.y >= top(r)
    /\ p.y < bottom(r)

\* variant: the point is handed on as it is
point_sub_none(a, b) == a

\* operator-(basic_point, basic_point)
point_sub(a, b) == Pt(a.x - b.x, a.y - b.y)

\* operator+ / operator+= on basic_point
point_add(a, b) == Pt(a.x + b.x, a.y + b.y)

pos_of(r) == Pt(r.x, r.y)

\* ------------------------------------------------------------ state flags
has_state(flags, check) == check \in flags

is_visible(st, w) == has_state(st[w], "visible")
is_dirty(st, w) == has_state(st[w], "dirty")
is_hovered(st, w) == has_state(st[w], "hovered")

\* Widget::contains
contains(bd, w, p) == rect_contains(bd[w], p)

\* recursion depth after which a walk over parent_ or children_ has
\* necessarily revisited a widget, i.e. never returns
Fuel == NumWidgets + 1

\* variant: the flag is set on the widget only, parent_ is not followed
mark_dirty_local(st, par, w, fuel) ==
    [ok |-> TRUE, st |-> [st EXCEPT ![w] = @ \cup {"dirty"}]]

\* Widget::mark_dirty: set the flag, then recurse into parent_
RECURSIVE mark_dirty(_, _, _, _)
mark_dirty(st, par, w, fuel) ==
    IF fuel = 0 THEN [ok |-> FALSE, st |-> st]
    ELSE LET st1 == [st EXCEPT ![w] = @ \cup {"dirty"}]
         IN  IF par[w] # Null
             THEN mark_dirty(st1, par, par[w], fuel - 1)
             ELSE [ok |-> TRUE, st |-> st1]

\* Widget::clear_dirty
clear_dirty(st, w) == [st EXCEPT ![w] = @ \ {"dirty"}]

\* Widget::set_state: set or clear the flag, then mark_dirty
set_state(st, par, w, flag, value) ==
    LET st1 == [st EXCEPT ![w] = IF value THEN @ \cup {flag} ELSE @ \ {flag}]
    IN  mark_dirty(st1, par, w, Fuel)

\* number of entries over all children_ vectors
RECURSIVE SumLen(_, _)
SumLen(ch, S) ==
    IF S = {} THEN 0
    ELSE LET w == CHOOSE x \in S : TRUE IN Len(ch[w]) + SumLen(ch, S \ {w})

TotalEdges == SumLen(children, Widgets)

\* std::find_if over children_: index of the first entry equal to c, 0 if none
RECURSIVE find_child(_, _, _)
find_child(s, c, i) ==
    IF i > Len(s) THEN 0
    ELSE IF s[i] = c THEN i ELSE find_child(s, c, i + 1)

\* variant: the last entry is erased whatever the index
erase_back(s, i) == SubSeq(s, 1, Len(s) - 1)

\* vector::erase at index i
erase_at(s, i) == [k \in 1..(Len(s) - 1) |-> IF k < i THEN s[k] ELSE s[k + 1]]

\* ----------------------------------------------------------- absolute pos
\* Widget::absolute_position: own position plus that of every parent_
RECURSIVE absolute_position(_, _, _, _)
absolute_position(bd, par, w, fuel) ==
    IF fuel = 0 THEN [ok |-> FALSE, p |-> Pt(0, 0)]
    ELSE IF par[w] = Null THEN [ok |-> TRUE, p |-> pos_of(bd[w])]
    ELSE LET up == absolute_position(bd, par, par[w], fuel - 1)
         IN  [ok |-> up.ok, p |-> point_add(pos_of(bd[w]), up.p)]

\* ------------------------------------------------------------ hit testing
\* a recursion deeper than this has met the same widget with the same point
HitFuel == NumWidgets * (2 * MaxCoord + 2)

\* Widget::hit_test; the result is a widget, Null, or no return at all
RECURSIVE hit_test(_, _, _, _, _, _)
RECURSIVE hit_children(_, _, _, _, _, _, _)
\* variant: the visibility test is missing, only the bounds are tested
hit_test_hidden(st, bd, ch, w, p, fuel) ==
    IF fuel = 0 THEN [ok |-> FALSE, hit |-> Null]
    ELSE IF ~contains(bd, w, p)
         THEN [ok |-> TRUE, hit |-> Null]
         ELSE LET r == hit_children(st, bd, ch, w, Len(ch[w]),
                                    point_sub(p, pos_of(bd[w])), fuel - 1)
              IN  IF ~r.ok THEN r
                  ELSE IF r.hit # Null THEN r
                  ELSE [ok |-> TRUE, hit |-> w]

hit_test(st, bd, ch, w, p, fuel) ==
    IF fuel = 0 THEN [ok |-> FALSE, hit |-> Null]
    ELSE IF ~is_visible(st, w) \/ ~contains(bd, w, p)
         THEN [ok |-> TRUE, hit |-> Null]
         ELSE LET r == hit_children(st, bd, ch, w, Len(ch[w]),
                                    point_sub(p, pos_of(bd[w])), fuel - 1)
              IN  IF ~r.ok THEN r
                  ELSE IF r.hit # Null THEN r
                  ELSE [ok |-> TRUE, hit |-> w]

\* variant: the children are tried in insertion order, first-added first
RECURSIVE hit_children_fwd(_, _, _, _, _, _, _)
hit_children_fwd(st, bd, ch, w, i, q, fuel) ==
    IF i = 0 THEN [ok |-> TRUE, hit |-> Null]
    ELSE LET r == hit_test(st, bd, ch, ch[w][Len(ch[w]) + 1 - i], q, fuel)
         IN  IF ~r.ok THEN r
             ELSE IF r.hit # Null THEN r
             ELSE hit_children_fwd(st, bd, ch, w, i - 1, q, fuel)

\* the loop over children_.rbegin() .. children_.rend(), at index i
hit_children(st, bd, ch, w, i, q, fuel) ==
    IF i = 0 THEN [ok |-> TRUE, hit |-> Null]
    ELSE LET r == hit_test(st, bd, ch, ch[w][i], q, fuel)
         IN  IF ~r.ok THEN r
             ELSE IF r.hit # Null THEN r
             ELSE hit_children(st, bd, ch, w, i - 1, q, fuel)

HitTest(w, p) == hit_test(state, bounds, children, w, p, HitFuel)

\* -------------------------------------------------------------- rendering
\* Widget::render: skip when invisible, draw, render the children in
\* insertion order, clear_dirty; log records the draw and clear_dirty calls
RECURSIVE render(_, _, _, _, _)
RECURSIVE render_children(_, _, _, _, _, _)

\* variant: the visibility test is missing, hidden widgets are rendered too
render_hidden(st, ch, w, fuel, log) ==
    IF fuel = 0 THEN [ok |-> FALSE, st |-> st, log |-> log]
    ELSE LET r == render_children(st, ch, w, 1, fuel - 1,
                                  Append(log, <<"draw", w>>))
         IN  IF ~r.ok THEN r
             ELSE [ok |-> TRUE, st |-> clear_dirty(r.st, w),
                   log |-> Append(r.log, <<"clear", w>>)]

render(st, ch, w, fuel, log) ==
    IF fuel = 0 THEN [ok |-> FALSE, st |-> st, log |-> log]
    ELSE IF ~is_visible(st, w) THEN [ok |-> TRUE, st |-> st, log |-> log]
    ELSE LET r == render_children(st, ch, w, 1, fuel - 1,
                                  Append(log, <<"draw", w>>))
         IN  IF ~r.ok THEN r
             ELSE [ok |-> TRUE, st |-> clear_dirty(r.st, w),
                   log |-> Append(r.log, <<"clear", w>>)]

\* variant: the children are rendered last-added first
RECURSIVE render_children_rev(_, _, _, _, _, _)
render_children_rev(st, ch, w, i, fuel, log) ==
    IF i > Len(ch[w]) THEN [ok |-> TRUE, st |-> st, log |-> log]
    ELSE LET r == render(st, ch, ch[w][Len(ch[w]) + 1 - i], fuel, log)
         IN  IF ~r.ok THEN r
             ELSE render_children_rev(r.st, ch, w, i + 1, fuel, r.log)

render_children(st, ch, w, i, fuel, log) ==
    IF i > Len(ch[w]) THEN [ok |-> TRUE, st |-> st, log |-> log]
    ELSE LET r == render(st, ch, ch[w][i], fuel, log)
         IN  IF ~r.ok THEN r
             ELSE render_children(r.st, ch, w, i + 1, fuel, r.log)

Render(w) == render(state, children, w, Fuel, <<>>)

\* ---------------------------------------------------------- event routing
\* events offered to Widget::on_event: the type tag and the mouse/keyboard
\* sub-state the handlers switch on
Events == { [type |-> "none", sub |-> "none"],
            [type |-> "window", sub |-> "close"],
            [type |-> "mouse", sub |-> "press"],
            [type |-> "mouse", sub |-> "enter"],
            [type |-> "keyboard", sub |-> "press"] }

\* Widget::on_mouse_event: absolute_position, then the switch on event.state.
\* hk[w] is TRUE for a widget of a derived class whose on_mouse_press and
\* on_key_press overrides return true; the base hooks return false, and the
\* base on_mouse_enter / on_mouse_leave set / clear hovered through set_state.
on_mouse_event(st, par, bd, hk, w, ev) ==
    LET ap == absolute_position(bd, par, w, Fuel)
    IN  IF ~ap.ok THEN [ok |-> FALSE, consumed |-> FALSE, st |-> st]
        ELSE IF ev.sub = "press"
             THEN [ok |-> TRUE, consumed |-> hk[w], st |-> st]
        ELSE IF ev.sub \in {"enter", "leave"}
             THEN LET md == set_state(st, par, w, "hovered", ev.sub = "enter")
                  IN  [ok |-> md.ok, consumed |-> FALSE, st |-> md.st]
        ELSE [ok |-> TRUE, consumed |-> FALSE, st |-> st]

\* Widget::on_keyboard_event
on_keyboard_event(st, hk, w, ev) ==
    IF ev.sub = "press" THEN [ok |-> TRUE, consumed |-> hk[w], st |-> st]
    ELSE [ok |-> TRUE, consumed |-> FALSE, st |-> st]

\* Widget::on_event: children in insertion order first, then the own
\* mouse / keyboard handler; trace lists the widgets whose own handler ran
RECURSIVE on_event(_, _, _, _, _, _, _, _, _)
RECURSIVE on_event_children(_, _, _, _, _, _, _, _, _, _)
on_event(st, par, ch, bd, hk, w, ev, fuel, trace) ==
    IF fuel = 0
    THEN [ok |-> FALSE, consumed |-> FALSE, st |-> st, trace |-> trace]
    ELSE LET r == on_event_children(st, par, ch, bd, hk, w, 1, ev,
                                    fuel - 1, trace)
         IN  IF ~r.ok \/ r.consumed THEN r
             ELSE IF ev.type = "mouse"
                  THEN LET h == on_mouse_event(r.st, par, bd, hk, w, ev)
                       IN  [ok |-> h.ok, consumed |-> h.consumed, st |-> h.st,
                            trace |-> Append(r.trace, w)]
             ELSE IF ev.type = "keyboard"
                  THEN LET h == on_keyboard_event(r.st, hk, w, ev)
                       IN  [ok |-> h.ok, consumed |-> h.consumed, st |-> h.st,
                            trace |-> Append(r.trace, w)]
             ELSE [ok |-> TRUE, consumed |-> FALSE, st |-> r.st,
                   trace |-> r.trace]

\* variant: a child that consumed the event does not stop the loop
RECURSIVE on_event_children_nostop(_, _, _, _, _, _, _, _, _, _)
on_event_children_nostop(st, par, ch, bd, hk, w, i, ev, fuel, trace) ==
    IF i > Len(ch[w])
    THEN [ok |-> TRUE, consumed |-> FALSE, st |-> st, trace |-> trace]
    ELSE LET r == on_event(st, par, ch, bd, hk, ch[w][i], ev, fuel, trace)
         IN  IF ~r.ok THEN r
             ELSE LET n == on_event_children_nostop(r.st, par, ch, bd, hk, w,
                                                    i + 1, ev, fuel, r.trace)
                  IN  [n EXCEPT !.consumed = @ \/ r.consumed]

\* variant: an invisible child is not offered the event
RECURSIVE on_event_children_visible(_, _, _, _, _, _, _, _, _, _)
on_event_children_visible(st, par, ch, bd, hk, w, i, ev, fuel, trace) ==
    IF i > Len(ch[w])
    THEN [ok |-> TRUE, consumed |-> FALSE, st |-> st, trace |-> trace]
    ELSE IF ~is_visible(st, ch[w][i])
    THEN on_event_children_visible(st, par, ch, bd, hk, w, i + 1, ev, fuel,
                                   trace)
    ELSE LET r == on_event(st, par, ch, bd, hk, ch[w][i], ev, fuel, trace)
         IN  IF ~r.ok \/ r.consumed THEN r
             ELSE on_event_children_visible(r.st, par, ch, bd, hk, w, i + 1,
                                            ev, fuel, r.trace)

on_event_children(st, par, ch, bd, hk, w, i, ev, fuel, trace) ==
    IF i > Len(ch[w])
    THEN [ok |-> TRUE, consumed |-> FALSE, st |-> st, trace |-> trace]
    ELSE LET r == on_event(st, par, ch, bd, hk, ch[w][i], ev, fuel, trace)
         IN  IF ~r.ok \/ r.consumed THEN r
             ELSE on_event_children(r.st, par, ch, bd, hk, w, i + 1, ev,
                                    fuel, r.trace)

OnEvent(w, ev) ==
    on_event(state, parent, children, bounds, hooks, w, ev, Fuel, <<>>)

\* ------------------------------------------------------------------ Init
NoRet == [op |-> "none"]

WInit ==
    /\ parent = [w \in Widgets |-> Null]
    /\ children = [w \in Widgets |-> <<>>]
    /\ bounds = [w \in Widgets |-> DefaultRect]
    /\ state = [w \in Widgets |-> {"visible", "enabled"}]
    /\ hooks \in [Widgets -> BOOLEAN]
    /\ hung = FALSE
    /\ ret = NoRet

\* --------------------------------------------------------------- actions
\* Widget::add_child(child) on receiver p
AddChild(p, c) ==
    /\ ~hung
    /\ TotalEdges < MaxEdges
    /\ IF c # Null /\ c # p
       THEN LET par1 == [parent EXCEPT ![c] = p]
                md == mark_dirty(state, par1, p, Fuel)
            IN  /\ parent' = par1
                /\ children' = [children EXCEPT ![p] = Append(@, c)]
                /\ state' = md.st
                /\ hung' = ~md.ok
       ELSE UNCHANGED <<parent, children, state, hung>>
    /\ ret' = NoRet
    /\ UNCHANGED <<bounds, hooks>>

\* Widget::remove_child(child) on receiver p
RemoveChild(p, c) ==
    /\ ~hung
    /\ LET i == find_child(children[p], c, 1)
       IN  IF i # 0
           THEN LET par1 == [parent EXCEPT ![c] = Null]
                    md == mark_dirty(state, par1, p, Fuel)
                IN  /\ parent' = par1
                    /\ children' = [children EXCEPT ![p] = erase_at(@, i)]
                    /\ state' = md.st
                    /\ hung' = ~md.ok
           ELSE UNCHANGED <<parent, children, state, hung>>
    /\ ret' = NoRet
    /\ UNCHANGED <<bounds, hooks>>

\* Widget::set_visible(v) = set_state(visible, v)
SetVisible(w, v) ==
    /\ ~hung
    /\ LET md == set_state(state, parent, w, "visible", v)
       IN  state' = md.st /\ hung' = ~md.ok
    /\ ret' = NoRet
    /\ UNCHANGED <<parent, children, bounds, hooks>>

\* Widget::set_enabled(v) = set_state(enabled, v)
SetWidgetEnabled(w, v) ==
    /\ ~hung
    /\ LET md == set_state(state, parent, w, "enabled", v)
       IN  state' = md.st /\ hung' = ~md.ok
    /\ ret' = NoRet
    /\ UNCHANGED <<parent, children, bounds, hooks>>

\* Widget::set_bounds(r)
SetBounds(w, r) ==
    /\ ~hung
    /\ IF pos_of(bounds[w]) # pos_of(r) \/ bounds[w].w # r.w \/ bounds[w].h # r.h
       THEN LET md == mark_dirty(state, parent, w, Fuel)
            IN  /\ bounds' = [bounds EXCEPT ![w] = r]
                /\ state' = md.st
                /\ hung' = ~md.ok
       ELSE UNCHANGED <<bounds, state, hung>>
    /\ ret' = NoRet
    /\ UNCHANGED <<parent, children, hooks>>

\* Widget::mark_dirty called directly
MarkDirty(w) ==
    /\ ~hung
    /\ LET md == mark_dirty(state, parent, w, Fuel)
       IN  state' = md.st /\ hung' = ~md.ok
    /\ ret' = [op |-> "mark_dirty"]
    /\ UNCHANGED <<parent, children, bounds, hooks>>

\* Widget::clear_dirty called directly
ClearDirty(w) ==
    /\ ~hung
    /\ state' = clear_dirty(state, w)
    /\ ret' = NoRet
    /\ UNCHANGED <<parent, children, bounds, hooks, hung>>

\* Widget::render(canvas)
RenderWidget(w) ==
    /\ ~hung
    /\ LET r == Render(w)
       IN  /\ state' = r.st
           /\ hung' = ~r.ok
    /\ ret' = [op |-> "render"]
    /\ UNCHANGED <<parent, children, bounds, hooks>>

\* Widget::hit_test(point)
HitTestCall(w, p) ==
    /\ ~hung
    /\ LET r == HitTest(w, p)
       IN  /\ hung' = ~r.ok
           /\ ret' = [op |-> "hit_test", hit |-> r.hit]
    /\ UNCHANGED <<parent, children, bounds, state, hooks>>

\* Widget::on_event(event)
OnEventCall(w, ev) ==
    /\ ~hung
    /\ LET r == OnEvent(w, ev)
       IN  /\ state' = r.st
           /\ hung' = ~r.ok
           /\ ret' = [op |-> "on_event", consumed |-> r.consumed]
    /\ UNCHANGED <<parent, children, bounds, hooks>>

\* ====================================================== layout containers
\* Sizef max_size_{FLT_MAX, FLT_MAX}: a value above every length in use
FltMax == 1000000

\* Sizef preferred_size_{100, 100}
DefaultPreferred == 100

Sz(sw, sh) == [w |-> sw, h |-> sh]

\* Align default construction: orientation none, main_axis start
DefaultAlign == [orientation |-> "none", main_axis |-> "start"]

\* the alignments handed to Widget::set_alignment
AlignInputs == { [orientation |-> "horizontal", main_axis |-> "end"],
                 [orientation |-> "vertical", main_axis |-> "end"] }

Kinds == {"widget", "hbox", "vbox"}

\* the values of LayoutAlign
LayoutAligns == {"start", "center", "end", "stretch"}

\* the layout fields a layout pass reads
LState == [kind |-> kind, spacing |-> spacing, padding |-> padding,
           box_alignment |-> box_alignment, alignment |-> alignment,
           min_size |-> min_size, max_size |-> max_size,
           preferred_size |-> preferred_size]

\* the size field along which a box arranges its children, and the other one
main_of(kd) == IF kd = "hbox" THEN "w" ELSE "h"
cross_of(kd) == IF kd = "hbox" THEN "h" ELSE "w"

\* the child counts as a stretch item: its alignment has the orientation of
\* the box and main_axis end
is_stretch(kd, al) ==
    /\ al.orientation = (IF kd = "hbox" THEN "horizontal" ELSE "vertical")
    /\ al.main_axis = "end"

\* std::max(a, b)
fmax(a, b) == IF a < b THEN b ELSE a

\* variant: the value is only raised to the lower limit
clamp_lo(v, lo, hi) == IF v < lo THEN lo ELSE v

\* std::clamp(v, lo, hi)
clamp(v, lo, hi) == IF v < lo THEN lo ELSE IF hi < v THEN hi ELSE v

\* variant: the leftover is not divided among the stretch children
fdiv_none(a, n) == a

\* float division; the quotients that arise are whole numbers, or negative
\* and then replaced by a minimum size that is not negative
fdiv(a, n) == a \div n

\* Widget::set_bounds as a function of the flags and bounds
set_bounds(st, par, bd, w, r) ==
    IF pos_of(bd[w]) # pos_of(r) \/ bd[w].w # r.w \/ bd[w].h # r.h
    THEN LET md == mark_dirty(st, par, w, Fuel)
         IN  [ok |-> md.ok, st |-> md.st, bd |-> [bd EXCEPT ![w] = r]]
    ELSE [ok |-> TRUE, st |-> st, bd |-> bd]

\* the first two loops of HBox / VBox::layout over the entries from index i:
\* summed preferred main size of the visible non-stretch children, number of
\* visible stretch children, number of visible children
RECURSIVE measure(_, _, _, _, _)
measure(L, st, ch, w, i) ==
    IF i > Len(ch[w]) THEN [pref |-> 0, stretch |-> 0, visible |-> 0]
    ELSE LET c == ch[w][i]
             m == measure(L, st, ch, w, i + 1)
         IN  IF ~is_visible(st, c) THEN m
             ELSE IF is_stretch(L.kind[w], L.alignment[c])
                  THEN [m EXCEPT !.stretch = @ + 1, !.visible = @ + 1]
                  ELSE [m EXCEPT !.pref = @ + L.preferred_size[c][main_of(L.kind[w])],
                                 !.visible = @ + 1]

\* variant: the padding is added to the child's current cross position
cross_place_drift(L, bd, w, c) ==
    LET cf == cross_of(L.kind[w])
    IN  [pos |-> bd[c][IF cf = "h" THEN "y" ELSE "x"] + L.padding[w],
         size |-> L.preferred_size[c][cf]]

\* the switch on alignment_: position and size of child c across the box w
cross_place(L, bd, w, c) ==
    LET cf == cross_of(L.kind[w])
        full == bd[w][cf]
        own == L.preferred_size[c][cf]
        a == L.box_alignment[w]
    IN  IF a = "start" THEN [pos |-> L.padding[w], size |-> own]
        ELSE IF a = "center" THEN [pos |-> fdiv(full - own, 2), size |-> own]
        ELSE IF a = "end" THEN [pos |-> full - L.padding[w] - own, size |-> own]
        ELSE [pos |-> L.padding[w], size |-> full - L.padding[w] * 2]

\* variant: the next child starts right behind the previous one
advance_tight(x, size, gap) == x + size

\* "x += child_width + spacing_": where the next visible child starts
advance(x, size, gap) == x + size + gap

\* main-axis size given to the visible child c of box w: a stretch child gets
\* max(share, min), the others their preferred size, both clamped to min/max
child_main(L, w, c, share) ==
    LET mf == main_of(L.kind[w])
        raw == IF is_stretch(L.kind[w], L.alignment[c])
               THEN fmax(share, L.min_size[c][mf])
               ELSE L.preferred_size[c][mf]
    IN  clamp(raw, L.min_size[c][mf], L.max_size[c][mf])

\* the share of one stretch child: leftover main-axis space by their number
stretch_share(L, st, ch, bd, w) ==
    LET m == measure(L, st, ch, w, 1)
        total_spacing == L.spacing[w] * fmax(0, m.visible - 1)
        available == bd[w][main_of(L.kind[w])] - L.padding[w] * 2
                        - total_spacing - m.pref
    IN  IF m.stretch > 0 THEN fdiv(available, m.stretch) ELSE 0

\* layout(): Widget::layout recurses into the visible children; HBox / VBox
\* ::layout measure, then place every visible child with set_bounds and lay
\* it out in turn
RECURSIVE layout(_, _, _, _, _, _, _)
RECURSIVE layout_plain_children(_, _, _, _, _, _, _, _)
RECURSIVE layout_box_children(_, _, _, _, _, _, _, _, _, _)
layout(L, par, ch, st, bd, w, fuel) ==
    IF fuel = 0 THEN [ok |-> FALSE, st |-> st, bd |-> bd]
    ELSE IF L.kind[w] = "widget"
         THEN layout_plain_children(L, par, ch, st, bd, w, 1, fuel - 1)
    ELSE IF ch[w] = <<>> THEN [ok |-> TRUE, st |-> st, bd |-> bd]
    ELSE layout_box_children(L, par, ch, st, bd, w, 1, L.padding[w],
                             stretch_share(L, st, ch, bd, w), fuel - 1)

\* the loop of Widget::layout from index i
layout_plain_children(L, par, ch, st, bd, w, i, fuel) ==
    IF i > Len(ch[w]) THEN [ok |-> TRUE, st |-> st, bd |-> bd]
    ELSE IF ~is_visible(st, ch[w][i])
         THEN layout_plain_children(L, par, ch, st, bd, w, i + 1, fuel)
    ELSE LET r == layout(L, par, ch, st, bd, ch[w][i], fuel)
         IN  IF ~r.ok THEN r
             ELSE layout_plain_children(L, par, ch, r.st, r.bd, w, i + 1, fuel)

\* the positioning loop of HBox / VBox::layout from index i, the next child
\* starting at x
layout_box_children(L, par, ch, st, bd, w, i, x, share, fuel) ==
    IF i > Len(ch[w]) THEN [ok |-> TRUE, st |-> st, bd |-> bd]
    ELSE IF ~is_visible(st, ch[w][i])
         THEN layout_box_children(L, par, ch, st, bd, w, i + 1, x, share, fuel)
    ELSE LET c == ch[w][i]
             size == child_main(L, w, c, share)
             cp == cross_place(L, bd, w, c)
             rect == IF L.kind[w] = "hbox" THEN Rc(x, cp.pos, size, cp.size)
                     ELSE Rc(cp.pos, x, cp.size, size)
             sb == set_bounds(st, par, bd, c, rect)
             r == IF sb.ok THEN layout(L, par, ch, sb.st, sb.bd, c, fuel)
                  ELSE sb
         IN  IF ~r.ok THEN r
             ELSE layout_box_children(L, par, ch, r.st, r.bd, w, i + 1,
                                      advance(x, size, L.spacing[w]), share,
                                      fuel)

\* the layout fields after construction of plain widgets
LInit ==
    /\ kind = [w \in Widgets |-> "widget"]
    /\ spacing = [w \in Widgets |-> 0]
    /\ padding = [w \in Widgets |-> 0]
    /\ box_alignment = [w \in Widgets |-> "start"]
    /\ alignment = [w \in Widgets |-> DefaultAlign]
    /\ min_size = [w \in Widgets |-> Sz(0, 0)]
    /\ max_size = [w \in Widgets |-> Sz(FltMax, FltMax)]
    /\ preferred_size = [w \in Widgets |-> Sz(DefaultPreferred, DefaultPreferred)]
    /\ laid = 0

\* a setter of Widget or LayoutContainer that stores a value and calls
\* mark_dirty
Touch(w) ==
    /\ ~hung
    /\ LET md == mark_dirty(state, parent, w, Fuel)
       IN  state' = md.st /\ hung' = ~md.ok
    /\ ret' = NoRet
    /\ UNCHANGED <<parent, children, bounds, hooks, kind, laid>>

\* LayoutContainer::set_spacing(v)
SetSpacing(w, v) ==
    /\ kind[w] # "widget"
    /\ spacing' = [spacing EXCEPT ![w] = v]
    /\ Touch(w)
    /\ UNCHANGED <<padding, box_alignment, alignment, min_size, max_size,
                   preferred_size>>

\* LayoutContainer::set_padding(v)
SetPadding(w, v) ==
    /\ kind[w] # "widget"
    /\ padding' = [padding EXCEPT ![w] = v]
    /\ Touch(w)
    /\ UNCHANGED <<spacing, box_alignment, alignment, min_size, max_size,
                   preferred_size>>

\* LayoutContainer::set_alignment(LayoutAlign)
SetBoxAlignment(w, a) ==
    /\ kind[w] # "widget"
    /\ box_alignment' = [box_alignment EXCEPT ![w] = a]
    /\ Touch(w)
    /\ UNCHANGED <<spacing, padding, alignment, min_size, max_size,
                   preferred_size>>

\* Widget::set_alignment(Align); hidden by the LayoutAlign overload in a box
SetAlignment(w, a) ==
    /\ kind[w] = "widget"
    /\ alignment' = [alignment EXCEPT ![w] = a]
    /\ Touch(w)
    /\ UNCHANGED <<spacing, padding, box_alignment, min_size, max_size,
                   preferred_size>>

\* Widget::set_min_size(size)
SetMinSize(w, sz) ==
    /\ min_size' = [min_size EXCEPT ![w] = sz]
    /\ Touch(w)
    /\ UNCHANGED <<spacing, padding, box_alignment, alignment, max_size,
                   preferred_size>>

\* Widget::set_max_size(size)
SetMaxSize(w, sz) ==
    /\ max_size' = [max_size EXCEPT ![w] = sz]
    /\ Touch(w)
    /\ UNCHANGED <<spacing, padding, box_alignment, alignment, min_size,
                   preferred_size>>

\* Widget::set_preferred_size(size)
SetPreferredSize(w, sz) ==
    /\ preferred_size' = [preferred_size EXCEPT ![w] = sz]
    /\ Touch(w)
    /\ UNCHANGED <<spacing, padding, box_alignment, alignment, min_size,
                   max_size>>

\* layout() called on widget w
Layout(w) ==
    /\ ~hung
    /\ laid < MaxLayouts
    /\ LET r == layout(LState, parent, children, state, bounds, w, Fuel)
       IN  /\ state' = r.st
           /\ bounds' = r.bd
           /\ hung' = ~r.ok
    /\ laid' = laid + 1
    /\ ret' = [op |-> "layout", again |-> ret.op = "layout"]
    /\ UNCHANGED <<parent, children, hooks, kind, spacing, padding,
                   box_alignment, alignment, min_size, max_size,
                   preferred_size>>

\* ======================================================= event dispatcher
EvTypes == {"none", "window", "mouse", "keyboard"}

\* size_t max_queue_size_ = 1000
DefaultMaxQueueSize == 1000

\* the type of the event a pushing listener hands to push_event
PushedType == "window"

\* the dispatcher fields a call works on, with the bookkeeping
DState == [q |-> event_queue, dropped |-> events_dropped,
           processed |-> events_processed, pushed |-> pushed,
           rejected |-> rejected, dequeued |-> dequeued,
           inv |-> <<>>, plog |-> plog]

\* variant: the capacity test is > instead of >=
push_event_gt(D, maxq, type) ==
    IF Len(D.q) > maxq
    THEN [D EXCEPT !.dropped = @ + 1, !.pushed = @ + 1, !.rejected = @ + 1]
    ELSE [D EXCEPT !.q = Append(@, [id |-> D.pushed + 1, type |-> type]),
                   !.pushed = @ + 1]

\* EventDispatcher::push_event: drop and count at capacity, else enqueue
push_event(D, maxq, type) ==
    IF Len(D.q) >= maxq
    THEN [D EXCEPT !.dropped = @ + 1, !.pushed = @ + 1, !.rejected = @ + 1]
    ELSE [D EXCEPT !.q = Append(@, [id |-> D.pushed + 1, type |-> type]),
                   !.pushed = @ + 1]

\* a listener callback: a pushing listener calls push_event on the
\* dispatcher; the return value is the listener's consume flag
callback(l, coll, D, maxq) ==
    LET D1 == [D EXCEPT !.inv = Append(@, [lid |-> l.lid, prio |-> l.prio,
                                            coll |-> coll])]
    IN  [res |-> l.consume,
         D |-> IF l.push THEN push_event(D1, maxq, PushedType) ELSE D1]

\* the loop "for (auto& listener : vec) if (listener.callback(event)) return"
RECURSIVE invoke_listeners(_, _, _, _, _)
invoke_listeners(ls, i, coll, D, maxq) ==
    IF i > Len(ls) THEN [consumed |-> FALSE, D |-> D]
    ELSE LET c == callback(ls[i], coll, D, maxq)
         IN  IF c.res THEN [consumed |-> TRUE, D |-> c.D]
             ELSE invoke_listeners(ls, i + 1, coll, c.D, maxq)

\* variant: the per-type listeners run before the global ones
dispatch_event_typed_first(en, gl, tl, ev, D, maxq) ==
    IF ~en THEN D
    ELSE LET g == invoke_listeners(tl[ev.type], 1, ev.type, D, maxq)
         IN  IF g.consumed THEN g.D
             ELSE invoke_listeners(gl, 1, "global", g.D, maxq).D

\* variant: the enabled flag is not tested
dispatch_event_always(en, gl, tl, ev, D, maxq) ==
    LET g == invoke_listeners(gl, 1, "global", D, maxq)
    IN  IF g.consumed THEN g.D
        ELSE invoke_listeners(tl[ev.type], 1, ev.type, g.D, maxq).D

\* EventDispatcher::dispatch_event: nothing when disabled, the global
\* listeners first, then the listeners of the event's type
dispatch_event(en, gl, tl, ev, D, maxq) ==
    IF ~en THEN D
    ELSE LET g == invoke_listeners(gl, 1, "global", D, maxq)
         IN  IF g.consumed THEN g.D
             ELSE invoke_listeners(tl[ev.type], 1, ev.type, g.D, maxq).D

\* the while loop of process_events: front, pop, dispatch_event, count
RECURSIVE drain(_, _, _, _, _, _)

\* variant: the newest event is taken (back instead of front)
drain_lifo(en, gl, tl, D, maxq, fuel) ==
    IF D.q = <<>> THEN [ok |-> TRUE, D |-> D]
    ELSE IF fuel = 0 THEN [ok |-> FALSE, D |-> D]
    ELSE LET ev == D.q[Len(D.q)]
             D1 == [D EXCEPT !.q = SubSeq(@, 1, Len(@) - 1)]
             D2 == dispatch_event(en, gl, tl, ev, D1, maxq)
             D3 == [D2 EXCEPT !.processed = @ + 1, !.dequeued = @ + 1,
                              !.plog = Append(@, ev.id)]
         IN  drain(en, gl, tl, D3, maxq, fuel - 1)

\* variant: the dispatched event is not counted
drain_uncounted(en, gl, tl, D, maxq, fuel) ==
    IF D.q = <<>> THEN [ok |-> TRUE, D |-> D]
    ELSE IF fuel = 0 THEN [ok |-> FALSE, D |-> D]
    ELSE LET ev == Head(D.q)
             D1 == [D EXCEPT !.q = Tail(@)]
             D2 == dispatch_event(en, gl, tl, ev, D1, maxq)
             D3 == [D2 EXCEPT !.dequeued = @ + 1, !.plog = Append(@, ev.id)]
         IN  drain(en, gl, tl, D3, maxq, fuel - 1)

drain(en, gl, tl, D, maxq, fuel) ==
    IF D.q = <<>> THEN [ok |-> TRUE, D |-> D]
    ELSE IF fuel = 0 THEN [ok |-> FALSE, D |-> D]
    ELSE LET ev == Head(D.q)
             D1 == [D EXCEPT !.q = Tail(@)]
             D2 == dispatch_event(en, gl, tl, ev, D1, maxq)
             D3 == [D2 EXCEPT !.processed = @ + 1, !.dequeued = @ + 1,
                              !.plog = Append(@, ev.id)]
         IN  drain(en, gl, tl, D3, maxq, fuel - 1)

\* a drain that has not emptied the queue after this many events is fed by a
\* listener on every event and never returns
DrainFuel(q) == Len(q) * (1 + MaxListeners) + 1

\* EventDispatcher::process_events
process_events(en, gl, tl, D, maxq) ==
    IF ~en THEN [ok |-> TRUE, D |-> D]
    ELSE drain(en, gl, tl, D, maxq, DrainFuel(D.q))

\* the permutations of a sequence
Perms(s) ==
    { t \in [1..Len(s) -> 1..Len(s)] :
        \A a, b \in 1..Len(s) : a # b => t[a] # t[b] }

\* descending by priority
SortedDesc(s) == \A a, b \in 1..Len(s) : a < b => s[a].prio >= s[b].prio

\* variant: the new entry stays at the back, nothing is sorted
sort_none(s) == {s}

\* std::sort with the comparison a.priority > b.priority: some arrangement
\* of the same entries that is descending by priority; the order of entries
\* of equal priority is whichever the sort produces
sort_desc(s) ==
    { r \in { [k \in 1..Len(s) |-> s[t[k]]] : t \in Perms(s) } : SortedDesc(r) }

\* the dispatcher after construction
DInit ==
    /\ event_queue = <<>>
    /\ listeners = [t \in EvTypes |-> <<>>]
    /\ global_listeners = <<>>
    /\ enabled = TRUE
    /\ events_processed = 0
    /\ events_dropped = 0
    /\ max_queue_size = DefaultMaxQueueSize
    /\ dhung = FALSE
    /\ dcall = [op |-> "none", inv |-> <<>>]
    /\ pushed = 0
    /\ cleared = 0
    /\ lost = 0
    /\ rejected = 0
    /\ dequeued = 0
    /\ plog = <<>>
    /\ nextLid = 1
    /\ pushedSince = 0
    /\ clearedSince = 0

\* the fields a call that works on DState leaves behind
Commit(D) ==
    /\ event_queue' = D.q
    /\ events_dropped' = D.dropped
    /\ events_processed' = D.processed
    /\ pushed' = D.pushed
    /\ rejected' = D.rejected
    /\ dequeued' = D.dequeued
    /\ plog' = D.plog
    /\ pushedSince' = pushedSince + (D.pushed - pushed)

\* EventDispatcher::push_event(event)
PushEvent(type) ==
    /\ ~dhung
    /\ pushed < MaxPush
    /\ Commit(push_event(DState, max_queue_size, type))
    /\ dcall' = [op |-> "push_event", inv |-> <<>>]
    /\ UNCHANGED <<listeners, global_listeners, enabled, max_queue_size,
                   dhung, cleared, lost, nextLid, clearedSince>>

\* EventDispatcher::process_events()
ProcessEvents ==
    /\ ~dhung
    /\ pushed < MaxPush
    /\ LET r == process_events(enabled, global_listeners, listeners, DState,
                               max_queue_size)
       IN  /\ Commit(r.D)
           /\ dhung' = ~r.ok
           /\ dcall' = [op |-> "process_events", inv |-> r.D.inv]
    /\ UNCHANGED <<listeners, global_listeners, enabled, max_queue_size,
                   cleared, lost, nextLid, clearedSince>>

\* EventDispatcher::dispatch_event(event)
DispatchEvent(type) ==
    /\ ~dhung
    /\ pushed < MaxPush
    /\ LET D == dispatch_event(enabled, global_listeners, listeners,
                               [id |-> 0, type |-> type], DState,
                               max_queue_size)
       IN  /\ Commit(D)
           /\ dcall' = [op |-> "dispatch_event", inv |-> D.inv]
    /\ UNCHANGED <<listeners, global_listeners, enabled, max_queue_size,
                   dhung, cleared, lost, nextLid, clearedSince>>

\* EventDispatcher::add_listener(type, callback, priority)
AddListener(type, prio, consume, push) ==
    /\ ~dhung
    /\ nextLid <= MaxListeners
    /\ \E sorted \in sort_desc(Append(listeners[type],
                                      [lid |-> nextLid, prio |-> prio,
                                       consume |-> consume, push |-> push])) :
          listeners' = [listeners EXCEPT ![type] = sorted]
    /\ nextLid' = nextLid + 1
    /\ dcall' = [op |-> "add_listener", inv |-> <<>>]
    /\ UNCHANGED <<event_queue, global_listeners, enabled, events_processed,
                   events_dropped, max_queue_size, dhung, pushed, cleared,
                   lost, rejected, dequeued, plog, pushedSince,
                   clearedSince>>

\* EventDispatcher::add_global_listener(callback, priority)
AddGlobalListener(prio, consume, push) ==
    /\ ~dhung
    /\ nextLid <= MaxListeners
    /\ global_listeners' \in
          sort_desc(Append(global_listeners,
                           [lid |-> nextLid, prio |-> prio,
                            consume |-> consume, push |-> push]))
    /\ nextLid' = nextLid + 1
    /\ dcall' = [op |-> "add_global_listener", inv |-> <<>>]
    /\ UNCHANGED <<event_queue, listeners, enabled, events_processed,
                   events_dropped, max_queue_size, dhung, pushed, cleared,
                   lost, rejected, dequeued, plog, pushedSince,
                   clearedSince>>

\* EventDispatcher::clear_listeners()
ClearListeners ==
    /\ ~dhung
    /\ listeners' = [t \in EvTypes |-> <<>>]
    /\ global_listeners' = <<>>
    /\ dcall' = [op |-> "clear_listeners", inv |-> <<>>]
    /\ UNCHANGED <<event_queue, enabled, events_processed, events_dropped,
                   max_queue_size, dhung, pushed, cleared, lost, rejected,
                   dequeued, plog, nextLid, pushedSince,
                   clearedSince>>

\* EventDispatcher::clear_queue()
ClearQueue ==
    /\ ~dhung
    /\ event_queue' = <<>>
    /\ cleared' = cleared + Len(event_queue)
    /\ clearedSince' = clearedSince + Len(event_queue)
    /\ dcall' = [op |-> "clear_queue", inv |-> <<>>]
    /\ UNCHANGED <<listeners, global_listeners, enabled, events_processed,
                   events_dropped, max_queue_size, dhung, pushed, lost,
                   rejected, dequeued, plog, nextLid, pushedSince>>

\* EventDispatcher::set_enabled(enabled)
SetEnabled(b) ==
    /\ ~dhung
    /\ enabled' = b
    /\ dcall' = [op |-> "set_enabled", inv |-> <<>>]
    /\ UNCHANGED <<event_queue, listeners, global_listeners, events_processed,
                   events_dropped, max_queue_size, dhung, pushed, cleared,
                   lost, rejected, dequeued, plog, nextLid, pushedSince,
                   clearedSince>>

\* EventDispatcher::set_max_queue_size(size)
SetMaxQueueSize(n) ==
    /\ ~dhung
    /\ max_queue_size' = n
    /\ dcall' = [op |-> "set_max_queue_size", inv |-> <<>>]
    /\ UNCHANGED <<event_queue, listeners, global_listeners, enabled,
                   events_processed, events_dropped, dhung, pushed, cleared,
                   lost, rejected, dequeued, plog, nextLid, pushedSince,
                   clearedSince>>

\* EventDispatcher::reset_stats()
ResetStats ==
    /\ ~dhung
    /\ events_processed' = 0
    /\ events_dropped' = 0
    /\ lost' = lost + events_processed + events_dropped
    /\ rejected' = 0
    /\ dequeued' = 0
    /\ pushedSince' = 0
    /\ clearedSince' = 0
    /\ dcall' = [op |-> "reset_stats", inv |-> <<>>]
    /\ UNCHANGED <<event_queue, listeners, global_listeners, enabled,
                   max_queue_size, dhung, pushed, cleared, plog, nextLid>>

\* ================================================================= Event
\* the alternatives of Event::event_variant and the values of event_type
Alts == {"EmptyEvent", "WindowEvent", "MouseEvent", "KeyboardEvent"}
PayloadAlts == Alts \ {"EmptyEvent"}

\* the values of window_state, mouse_state, mouse_button, keyboard_state
WindowStates == {"none", "quit", "close", "minimize", "maximize", "resize",
                 "restore", "hide", "show", "focus_gained", "focus_lost",
                 "moved"}
MouseStates == {"none", "move", "enter", "leave", "press", "release",
                "double_click", "scroll"}
MouseButtons == {"none", "left", "middle", "right", "x1", "x2"}
KeyboardStates == {"none", "press", "release", "char_input"}

\* payload objects: the fields the constructors take
WindowEvents == [state : WindowStates, size : {Sz(0, 0), Sz(1, 2)}]
MouseEvents == [state : MouseStates, button : MouseButtons,
                position : {Pt(0, 0), Pt(1, 2)}]
KeyboardEvents == [state : KeyboardStates, key_code : {0, 1},
                   is_repeat : BOOLEAN]

Payloads(alt) ==
    IF alt = "WindowEvent" THEN WindowEvents
    ELSE IF alt = "MouseEvent" THEN MouseEvents
    ELSE IF alt = "KeyboardEvent" THEN KeyboardEvents
    ELSE {[state |-> "none"]}

\* the type tag each constructor writes
TagOf(alt) ==
    IF alt = "WindowEvent" THEN "window"
    ELSE IF alt = "MouseEvent" THEN "mouse"
    ELSE IF alt = "KeyboardEvent" THEN "keyboard"
    ELSE "none"

\* Event(): data_(EmptyEvent{}), type_ = none
EventDefault ==
    [data |-> [alt |-> "EmptyEvent", val |-> [state |-> "none"]],
     type |-> "none"]

\* variant: type_ keeps its default member initialiser
Event_untagged(alt, p) ==
    [data |-> [alt |-> alt, val |-> p], type |-> "none"]

\* Event(WindowEvent) / Event(MouseEvent) / Event(KeyboardEvent)
Event_from(alt, p) ==
    [data |-> [alt |-> alt, val |-> p], type |-> TagOf(alt)]

\* Event::type, is_window, is_mouse, is_keyboard, is_none
event_type_of(e) == e.type
is_window(e) == e.type = "window"
is_mouse(e) == e.type = "mouse"
is_keyboard(e) == e.type = "keyboard"
is_none(e) == e.type = "none"

\* Event::holds<T>
holds(e, alt) == e.data.alt = alt

\* Event::get<T>: the payload, or std::bad_variant_access
get(e, alt) ==
    IF e.data.alt = alt THEN [thrown |-> FALSE, val |-> e.data.val]
    ELSE [thrown |-> TRUE]

\* Event::get_if<T>: a pointer to the payload, or nullptr
NullPtr == [null |-> TRUE]
get_if(e, alt) ==
    IF e.data.alt = alt THEN [null |-> FALSE, val |-> e.data.val]
    ELSE NullPtr

\* a default-constructed Event
EInit ==
    /\ evt = EventDefault
    /\ built = [how |-> "default"]

\* evt = Event()
ConstructDefault ==
    /\ evt' = EventDefault
    /\ built' = [how |-> "default"]

\* evt = Event(p) for a payload p of alternative alt
ConstructFrom(alt, p) ==
    /\ evt' = Event_from(alt, p)
    /\ built' = [how |-> "payload", alt |-> alt, val |-> p]

\* evt.variant() = p: the variant is assigned, the tag is not touched
AssignVariant(alt, p) ==
    /\ evt' = [evt EXCEPT !.data = [alt |-> alt, val |-> p]]
    /\ built' = [how |-> "variant"]

\* --------------------------------------------------- ScopedEventListener
\* no ScopedEventListener exists
SInit == scoped = [l \in 1..MaxListeners |-> "none"]

\* ScopedEventListener(dispatcher, type, callback, priority): add_listener
ScopedListener(type, prio, consume) ==
    /\ AddListener(type, prio, consume, FALSE)
    /\ scoped' = [scoped EXCEPT ![nextLid] = "alive"]

\* ScopedEventListener(dispatcher, callback, priority): add_global_listener
ScopedGlobalListener(prio, consume) ==
    /\ AddGlobalListener(prio, consume, FALSE)
    /\ scoped' = [scoped EXCEPT ![nextLid] = "alive"]

\* ~ScopedEventListener() of the object that made registration l: the body
\* is empty, the dispatcher is not touched
DestroyScoped(l) ==
    /\ scoped[l] = "alive"
    /\ scoped' = [scoped EXCEPT ![l] = "destroyed"]
    /\ UNCHANGED dvars

\* ------------------------------------------------------------ D2DContext
\* colours a client draws with
Colors == {1, 2}

\* color of an empty brush cache, of a surface nothing was cleared to
NoColor == 0

\* D2D1::Matrix3x2F::Identity(); a transform is the sequence of the
\* factors multiplied onto it
Identity == <<>>

\* the methods that start with the is_drawing_ test
GatedOps ==
    {"end_draw", "clear", "save_state", "restore_state", "translate",
     "scale", "rotate", "reset_transform", "set_clip_rect", "reset_clip",
     "draw_line", "draw_rect", "fill_rect", "draw_rounded_rect",
     "fill_rounded_rect", "draw_ellipse", "fill_ellipse", "draw_polyline",
     "fill_polygon", "draw_text"}

\* the shape and text draw calls
DrawOps ==
    {"draw_line", "draw_rect", "fill_rect", "draw_rounded_rect",
     "fill_rounded_rect", "draw_ellipse", "fill_ellipse", "draw_polyline",
     "fill_polygon", "draw_text"}

\* outcome of EndDraw on the device context
HResults == {"S_OK", "D2DERR_RECREATE_TARGET"}

\* a method returned normally with context C
Done(C) == [ctx |-> C, signal |-> "none"]

\* a method threw std::runtime_error and left context C
Thrown(C) == [ctx |-> C, signal |-> "exception"]

\* a method dereferenced the reset d2d_context_
Crashed(C) == [ctx |-> C, signal |-> "crash"]

\* release_device_resources: the device context and all it held are gone
release_device_resources(C) ==
    [C EXCEPT !.device = "lost", !.transform = Identity, !.clips = 0,
              !.painted = 0, !.bg = NoColor]

handle_device_lost(C) == release_device_resources(C)

begin_draw(C) ==
    IF C.is_drawing THEN Thrown(C)
    ELSE IF C.device = "lost" THEN Crashed(C)
    ELSE Done([C EXCEPT !.is_drawing = TRUE])

end_draw(C, hr) ==
    IF ~C.is_drawing THEN Done(C)
    ELSE IF hr = "D2DERR_RECREATE_TARGET"
         THEN Done(handle_device_lost([C EXCEPT !.is_drawing = FALSE]))
         ELSE Done([C EXCEPT !.is_drawing = FALSE])

clear_always(C, color) == Done([C EXCEPT !.bg = color, !.painted = 0])

clear(C, color) ==
    IF ~C.is_drawing THEN Done(C)
    ELSE Done([C EXCEPT !.bg = color, !.painted = 0])

save_state(C) ==
    IF ~C.is_drawing THEN Done(C)
    ELSE Done([C EXCEPT !.state_stack = Append(@, C.transform)])

\* has_clip of a saved state is never set, so no clip is popped
restore_state(C) ==
    IF ~C.is_drawing \/ C.state_stack = <<>> THEN Done(C)
    ELSE Done([C EXCEPT !.transform = C.state_stack[Len(C.state_stack)],
                        !.state_stack = SubSeq(@, 1, Len(@) - 1)])

\* GetTransform, multiply by the factor, SetTransform
multiply(C, factor) == [C EXCEPT !.transform = Append(@, factor)]

translate(C) == IF ~C.is_drawing THEN Done(C) ELSE Done(multiply(C, "T"))

scale(C) == IF ~C.is_drawing THEN Done(C) ELSE Done(multiply(C, "S"))

rotate(C) == IF ~C.is_drawing THEN Done(C) ELSE Done(multiply(C, "R"))

reset_transform(C) ==
    IF ~C.is_drawing THEN Done(C)
    ELSE Done([C EXCEPT !.transform = Identity])

set_clip_rect(C) ==
    IF ~C.is_drawing THEN Done(C)
    ELSE Done([C EXCEPT !.clips = @ + 1])

\* PopAxisAlignedClip without a matching push leaves the clip stack empty
reset_clip(C) ==
    IF ~C.is_drawing THEN Done(C)
    ELSE Done([C EXCEPT !.clips = IF @ > 0 THEN @ - 1 ELSE 0])

get_solid_brush(C, color) ==
    IF C.brush # color THEN [C EXCEPT !.brush = color] ELSE C

\* get_solid_brush, then one primitive drawn on the target
draw_primitive(C, color) ==
    [get_solid_brush(C, color) EXCEPT !.painted = @ + 1]

\* draw_line ... draw_text, named by m: nothing outside a bracket, nothing for
\* a polyline of fewer than 2 or a polygon of fewer than 3 points
draw_call(C, m, color, npoints) ==
    IF \/ ~C.is_drawing
       \/ m = "draw_polyline" /\ npoints < 2
       \/ m = "fill_polygon" /\ npoints < 3
    THEN Done(C)
    ELSE Done(draw_primitive(C, color))

\* a context after construction
CInit ==
    /\ ctx = [is_drawing |-> FALSE, device |-> "ok", state_stack |-> <<>>,
              transform |-> Identity, clips |-> 0, painted |-> 0,
              bg |-> NoColor, brush |-> NoColor]
    /\ cret = [gated |-> FALSE, signal |-> "none", was_drawing |-> FALSE]

\* one call of method m with outcome r; a crash ends the program
Call(m, r) ==
    /\ cret.signal # "crash"
    /\ ctx' = r.ctx
    /\ cret' = [gated |-> m \in GatedOps, signal |-> r.signal,
                was_drawing |-> ctx.is_drawing]

BeginDraw == Call("begin_draw", begin_draw(ctx))

EndDraw(hr) == Call("end_draw", end_draw(ctx, hr))

Clear(color) == Call("clear", clear(ctx, color))

\* the client saves when nothing is saved
SaveState ==
    /\ ctx.state_stack = <<>>
    /\ Call("save_state", save_state(ctx))

RestoreState == Call("restore_state", restore_state(ctx))

Translate ==
    /\ Len(ctx.transform) < MaxFactors
    /\ Call("translate", translate(ctx))

Scale ==
    /\ Len(ctx.transform) < MaxFactors
    /\ Call("scale", scale(ctx))

Rotate ==
    /\ Len(ctx.transform) < MaxFactors
    /\ Call("rotate", rotate(ctx))

ResetTransform == Call("reset_transform", reset_transform(ctx))

SetClipRect ==
    /\ ctx.clips < MaxClips
    /\ Call("set_clip_rect", set_clip_rect(ctx))

ResetClip == Call("reset_clip", reset_clip(ctx))

DrawCall(m, color, npoints) ==
    /\ ctx.painted < MaxPainted
    /\ Call(m, draw_call(ctx, m, color, npoints))

\* ----------------------------------------------------------------- Button
\* the widget objects of class Button; each has an on_click_ callback set
Buttons == {2}

\* mouse events delivered to a button: press and release carry a button and
\* a position, enter and leave do not use them
ButtonEvents ==
    { [sub |-> s, button |-> b, pos |-> p] :
          s \in {"press", "release"}, b \in {"left", "right"}, p \in Points }
        \cup { [sub |-> s, button |-> "none", pos |-> Pt(0, 0)] :
                  s \in {"enter", "leave"} }

is_enabled(st, w) == has_state(st[w], "enabled")
is_pressed(st, w) == has_state(st[w], "pressed")

\* two results of mark_dirty in sequence
then_mark_dirty(md, par, w) ==
    IF md.ok THEN mark_dirty(md.st, par, w, Fuel) ELSE md

\* Button::on_mouse_enter
Button_on_mouse_enter(st, par, w) ==
    LET md == then_mark_dirty(set_state(st, par, w, "hovered", TRUE), par, w)
    IN  [ok |-> md.ok, consumed |-> FALSE, st |-> md.st, clicked |-> 0]

\* Button::on_mouse_leave
Button_on_mouse_leave(st, par, w) ==
    LET h == set_state(st, par, w, "hovered", FALSE)
        p == IF h.ok THEN set_state(h.st, par, w, "pressed", FALSE) ELSE h
        md == then_mark_dirty(p, par, w)
    IN  [ok |-> md.ok, consumed |-> FALSE, st |-> md.st, clicked |-> 0]

\* Button::on_mouse_press
Button_on_mouse_press(st, par, w, button, pos) ==
    IF button = "left" /\ is_enabled(st, w)
    THEN LET md == then_mark_dirty(set_state(st, par, w, "pressed", TRUE),
                                   par, w)
         IN  [ok |-> md.ok, consumed |-> TRUE, st |-> md.st, clicked |-> 0]
    ELSE [ok |-> TRUE, consumed |-> FALSE, st |-> st, clicked |-> 0]

\* Button::on_mouse_release: the click fires when the button was pressed and
\* contains(pos), which tests pos against bounds_
Button_on_mouse_release(st, par, bd, w, button, pos) ==
    IF button = "left" /\ is_enabled(st, w)
    THEN LET was_pressed == is_pressed(st, w)
             md == then_mark_dirty(set_state(st, par, w, "pressed", FALSE),
                                   par, w)
         IN  [ok |-> md.ok, consumed |-> TRUE, st |-> md.st,
              clicked |-> IF was_pressed /\ contains(bd, w, pos)
                          THEN 1 ELSE 0]
    ELSE [ok |-> TRUE, consumed |-> FALSE, st |-> st, clicked |-> 0]

\* Widget::on_mouse_event on a Button: local_pos = event.position -
\* absolute_position(), then the switch on event.state
Button_on_mouse_event(st, par, bd, w, ev) ==
    LET ap == absolute_position(bd, par, w, Fuel)
        local_pos == point_sub(ev.pos, ap.p)
    IN  IF ~ap.ok
        THEN [ok |-> FALSE, consumed |-> FALSE, st |-> st, clicked |-> 0]
        ELSE IF ev.sub = "press"
             THEN Button_on_mouse_press(st, par, w, ev.button, local_pos)
        ELSE IF ev.sub = "release"
             THEN Button_on_mouse_release(st, par, bd, w, ev.button, local_pos)
        ELSE IF ev.sub = "enter" THEN Button_on_mouse_enter(st, par, w)
        ELSE Button_on_mouse_leave(st, par, w)

\* no click yet, no event delivered yet
BInit ==
    /\ clicks = 0
    /\ bret = [op |-> "none"]

\* Button::on_mouse_event(ev) on the button w
ButtonMouseEvent(w, ev) ==
    /\ ~hung
    /\ w \in Buttons
    /\ clicks < MaxClicks
    /\ LET r == Button_on_mouse_event(state, parent, bounds, w, ev)
       IN  /\ state' = r.st
           /\ hung' = ~r.ok
           /\ clicks' = clicks + r.clicked
           /\ bret' = [op |-> "on_mouse_event", ev |-> ev,
                       consumed |-> r.consumed, clicked |-> r.clicked]
    /\ ret' = NoRet
    /\ UNCHANGED <<parent, children, bounds, hooks>>

\* --------------------------------------------------------------- CheckBox
\* the widget objects of class CheckBox; each has on_checked_changed_ set
CheckBoxes == {3}

\* values of state_: unchecked, checked, indeterminate
Unchecked == 0
Checked == 1
Indeterminate == 2

\* keys given to on_key_press
Keys == {"VK_SPACE", "VK_RETURN"}

\* the fields of the CheckBox, whether mark_dirty was called and how often
\* on_checked_changed_ was invoked in the current call
KState == [checked |-> checked, tristate |-> tristate, state |-> cb_state,
           dirty |-> FALSE, calls |-> 0]

\* "if (on_checked_changed_) on_checked_changed_(checked_)"
notify(K) == [K EXCEPT !.calls = @ + 1]

\* CheckBox::set_checked
set_checked(K, b) ==
    IF K.checked # b
    THEN notify([K EXCEPT !.checked = b,
                          !.state = IF b THEN Checked ELSE Unchecked,
                          !.dirty = TRUE])
    ELSE K

\* CheckBox::toggle
toggle(K) == set_checked(K, ~K.checked)

\* CheckBox::set_tristate
set_tristate(K, b) == [K EXCEPT !.tristate = b]

\* CheckBox::set_state(int)
CheckBox_set_state(K, n) ==
    IF K.tristate
    THEN LET s == clamp(n, Unchecked, Indeterminate)
         IN  notify([K EXCEPT !.state = s, !.checked = (s = Checked),
                              !.dirty = TRUE])
    ELSE K

\* the cycle "state_ = (state_ + 1) % 3; checked_ = (state_ == 1)"
cycle(K) ==
    LET s == (K.state + 1) % 3
    IN  [K EXCEPT !.state = s, !.checked = (s = Checked)]

\* CheckBox::on_mouse_press
CheckBox_on_mouse_press(K, en, button) ==
    IF button = "left" /\ en
    THEN [(IF K.tristate THEN cycle(K) ELSE toggle(K)) EXCEPT !.dirty = TRUE]
    ELSE K

\* CheckBox::on_key_press
CheckBox_on_key_press(K, en, key) ==
    IF key = "VK_SPACE" /\ en
    THEN notify([(IF K.tristate THEN cycle(K) ELSE toggle(K))
                    EXCEPT !.dirty = TRUE])
    ELSE K

\* CheckBox(label, checked)
KInit ==
    /\ checked \in BOOLEAN
    /\ tristate = FALSE
    /\ cb_state = IF checked THEN Checked ELSE Unchecked
    /\ kret = [op |-> "none", calls |-> 0]

\* a call op on the CheckBox w that leaves the fields K
CheckBoxCall(w, op, K) ==
    /\ ~hung
    /\ w \in CheckBoxes
    /\ checked' = K.checked
    /\ tristate' = K.tristate
    /\ cb_state' = K.state
    /\ kret' = [op |-> op, calls |-> K.calls]
    /\ IF K.dirty
       THEN LET md == mark_dirty(state, parent, w, Fuel)
            IN  state' = md.st /\ hung' = ~md.ok
       ELSE UNCHANGED <<state, hung>>
    /\ ret' = NoRet
    /\ UNCHANGED <<parent, children, bounds, hooks>>

SetChecked(w, b) == CheckBoxCall(w, "set_checked", set_checked(KState, b))

Toggle(w) == CheckBoxCall(w, "toggle", toggle(KState))

SetTristate(w, b) == CheckBoxCall(w, "set_tristate", set_tristate(KState, b))

SetState(w, n) == CheckBoxCall(w, "set_state", CheckBox_set_state(KState, n))

CheckBoxMousePress(w, button) ==
    CheckBoxCall(w, "on_mouse_press",
                 CheckBox_on_mouse_press(KState, is_enabled(state, w), button))

CheckBoxKeyPress(w, key) ==
    CheckBoxCall(w, "on_key_press",
                 CheckBox_on_key_press(KState, is_enabled(state, w), key))

\* ---------------------------------------------------------- specifications
\* widgets of the base class only (every hook returns false)
BaseInit == WInit /\ hooks = [w \in Widgets |-> FALSE]

\* a client that builds a tree, places and shows / hides widgets, hit-tests
HitNext ==
    \/ \E p \in Widgets, c \in Widgets \cup {Null} : AddChild(p, c)
    \/ \E p \in Widgets, c \in Widgets \cup {Null} : RemoveChild(p, c)
    \/ \E w \in Widgets, v \in BOOLEAN : SetVisible(w, v)
    \/ \E w \in Widgets, r \in RectInputs : SetBounds(w, r)
    \/ \E w \in Widgets, p \in Points : HitTestCall(w, p)

HitInit == BaseInit /\ DInit /\ LInit /\ EInit /\ SInit /\ CInit /\ BInit /\ KInit

HitStep == HitNext /\ UNCHANGED <<dvars, lvars, evars, svars, cvars, bvars, kvars>>

SpecHit == HitInit /\ [][HitStep]_vars

\* a client that builds a tree, shows / hides widgets, invalidates, renders
DirtyNext ==
    \/ \E p \in Widgets, c \in Widgets \cup {Null} : AddChild(p, c)
    \/ \E p \in Widgets, c \in Widgets \cup {Null} : RemoveChild(p, c)
    \/ \E w \in Widgets, v \in BOOLEAN : SetVisible(w, v)
    \/ \E w \in Widgets : MarkDirty(w)
    \/ \E w \in Widgets : ClearDirty(w)
    \/ \E w \in Widgets : RenderWidget(w)

DirtyInit == BaseInit /\ DInit /\ LInit /\ EInit /\ SInit /\ CInit /\ BInit /\ KInit

DirtyStep == DirtyNext /\ UNCHANGED <<dvars, lvars, evars, svars, cvars, bvars, kvars>>

SpecDirty == DirtyInit /\ [][DirtyStep]_vars

\* a client that builds a tree of base and derived widgets and routes events
RouteNext ==
    \/ \E p \in Widgets, c \in Widgets \cup {Null} : AddChild(p, c)
    \/ \E p \in Widgets, c \in Widgets \cup {Null} : RemoveChild(p, c)
    \/ \E w \in Widgets, ev \in Events : OnEventCall(w, ev)

RouteInit == WInit /\ DInit /\ LInit /\ EInit /\ SInit /\ CInit /\ BInit /\ KInit

RouteStep == RouteNext /\ UNCHANGED <<dvars, lvars, evars, svars, cvars, bvars, kvars>>

SpecRoute == RouteInit /\ [][RouteStep]_vars

\* a client that registers non-pushing listeners and dispatches directly
ListenNext ==
    \/ \E t \in {"mouse", "keyboard"}, pr \in 1..MaxPrio, c \in BOOLEAN :
          AddListener(t, pr, c, FALSE)
    \/ \E pr \in 1..MaxPrio, c \in BOOLEAN : AddGlobalListener(pr, c, FALSE)
    \/ ClearListeners
    \/ \E b \in BOOLEAN : SetEnabled(b)
    \/ \E t \in EvTypes : DispatchEvent(t)

ListenInit == BaseInit /\ DInit /\ LInit /\ EInit /\ SInit /\ CInit /\ BInit /\ KInit

ListenStep == ListenNext /\ UNCHANGED <<wvars, lvars, evars, svars, cvars, bvars, kvars>>

SpecListen == ListenInit /\ [][ListenStep]_vars

\* nothing but listener registration has been called yet
Setup == dcall.op \in {"none", "add_listener", "add_global_listener"}

\* a client that first registers at most one listener for mouse events,
\* which pushes a follow-up event, and at most one global listener, and
\* then queues, processes and dispatches events
QueueNext ==
    \/ \E t \in {"mouse", "window"} : PushEvent(t)
    \/ ProcessEvents
    \/ DispatchEvent("mouse")
    \/ ClearQueue
    \/ \E b \in BOOLEAN : SetEnabled(b)
    \/ \E n \in 0..MaxQ : SetMaxQueueSize(n)
    \/ ResetStats
    \/ Setup /\ listeners["mouse"] = <<>> /\ AddListener("mouse", 1, FALSE, TRUE)
    \/ Setup /\ global_listeners = <<>>
             /\ \E p \in BOOLEAN : AddGlobalListener(1, FALSE, p)

QueueInit == BaseInit /\ DInit /\ LInit /\ EInit /\ SInit /\ CInit /\ BInit /\ KInit

QueueStep == QueueNext /\ UNCHANGED <<wvars, lvars, evars, svars, cvars, bvars, kvars>>

SpecQueue == QueueInit /\ [][QueueStep]_vars

\* the sizes and lengths a client of the layout containers uses
SmallLen == 12
LargeLen == 24
BoxLen == 48
PadLen == 6

\* one box (widget 1, an HBox or a VBox) and plain widgets
LayoutInit ==
    /\ BaseInit
    /\ DInit
    /\ EInit
    /\ SInit
    /\ CInit
    /\ BInit
    /\ KInit
    /\ kind \in { k \in [Widgets -> Kinds] :
                     k[1] # "widget" /\ \A w \in Widgets \ {1} : k[w] = "widget" }
    /\ spacing = [w \in Widgets |-> 0]
    /\ padding = [w \in Widgets |-> 0]
    /\ box_alignment = [w \in Widgets |-> "start"]
    /\ alignment = [w \in Widgets |-> DefaultAlign]
    /\ min_size = [w \in Widgets |-> Sz(0, 0)]
    /\ max_size = [w \in Widgets |-> Sz(FltMax, FltMax)]
    /\ preferred_size = [w \in Widgets |-> Sz(DefaultPreferred, DefaultPreferred)]
    /\ laid = 0

\* a client that fills and configures the box, lays it out, then hides or
\* shows children between further layout passes
LayoutNext ==
    \/ laid = 0 /\ \E c \in Widgets \ {1} : AddChild(1, c) /\ UNCHANGED lvars
    \/ laid = 0 /\ SetBounds(1, Rc(0, 0, BoxLen, BoxLen)) /\ UNCHANGED lvars
    \/ laid = 0 /\ SetSpacing(1, SmallLen)
    \/ laid = 0 /\ SetPadding(1, PadLen)
    \/ laid = 0 /\ \E c \in Widgets \ {1}, a \in AlignInputs : SetAlignment(c, a)
    \/ laid = 0 /\ SetMinSize(2, Sz(SmallLen, SmallLen))
    \/ laid = 0 /\ SetMaxSize(3, Sz(LargeLen, LargeLen))
    \/ laid = 0 /\ \E c \in Widgets \ {1} :
                      SetPreferredSize(c, Sz(SmallLen, SmallLen))
    \/ /\ laid > 0
       /\ laid < MaxLayouts
       /\ \E c \in Widgets \ {1}, v \in BOOLEAN :
             SetVisible(c, v) /\ UNCHANGED lvars
    \/ Layout(1)

LayoutStep == LayoutNext /\ UNCHANGED <<dvars, evars, svars, cvars, bvars, kvars>>

SpecLayout == LayoutInit /\ [][LayoutStep]_vars

\* a client that builds events and writes through variant()
EventNext ==
    \/ ConstructDefault
    \/ \E alt \in PayloadAlts : \E p \in Payloads(alt) : ConstructFrom(alt, p)
    \/ \E alt \in Alts : \E p \in Payloads(alt) : AssignVariant(alt, p)

EventInit == BaseInit /\ DInit /\ LInit /\ EInit /\ SInit /\ CInit /\ BInit /\ KInit

EventStep == EventNext /\ UNCHANGED <<wvars, dvars, lvars, svars, cvars, bvars, kvars>>

SpecEvent == EventInit /\ [][EventStep]_vars

\* a client that registers listeners through ScopedEventListener objects,
\* lets them go out of scope, and dispatches
ScopedNext ==
    \/ \E pr \in 1..MaxPrio : ScopedListener("mouse", pr, FALSE)
    \/ \E pr \in 1..MaxPrio, c \in BOOLEAN : ScopedGlobalListener(pr, c)
    \/ \E l \in 1..MaxListeners : DestroyScoped(l)
    \/ \E t \in {"mouse", "keyboard"} : DispatchEvent(t) /\ UNCHANGED svars

ScopedInit == BaseInit /\ DInit /\ LInit /\ EInit /\ SInit /\ CInit /\ BInit /\ KInit

ScopedStep == ScopedNext /\ UNCHANGED <<wvars, lvars, evars, cvars, bvars, kvars>>

SpecScoped == ScopedInit /\ [][ScopedStep]_vars

\* a client that calls the context's methods in any order
ContextNext ==
    \/ BeginDraw
    \/ \E hr \in HResults : EndDraw(hr)
    \/ \E color \in Colors : Clear(color)
    \/ SaveState
    \/ RestoreState
    \/ Translate
    \/ Scale
    \/ Rotate
    \/ ResetTransform
    \/ SetClipRect
    \/ ResetClip
    \/ \E m \in DrawOps, color \in Colors, n \in {1, 3} : DrawCall(m, color, n)

ContextInit == BaseInit /\ DInit /\ LInit /\ EInit /\ SInit /\ CInit /\ BInit /\ KInit

ContextStep == ContextNext /\ UNCHANGED <<wvars, dvars, lvars, evars, svars, bvars, kvars>>

SpecContext == ContextInit /\ [][ContextStep]_vars

\* press events as a client delivers them: a mouse press at a position, a
\* key press
OfferPoints == { Pt(0, 0), Pt(MaxCoord, MaxCoord) }

OfferEvents ==
    { [type |-> "mouse", sub |-> "press", pos |-> p] : p \in OfferPoints }
        \cup { [type |-> "keyboard", sub |-> "press"] }

\* a client that builds a tree of base and derived widgets, hides some of
\* them, disables and places one, and routes press events
OfferNext ==
    \/ \E p \in Widgets, c \in Widgets : AddChild(p, c)
    \/ \E w \in Widgets : SetVisible(w, FALSE)
    \/ SetWidgetEnabled(2, FALSE)
    \/ SetBounds(2, Rc(1, 0, MaxCoord - 1, MaxCoord))
    \/ \E w \in Widgets, ev \in OfferEvents : OnEventCall(w, ev)

OfferInit == WInit /\ DInit /\ LInit /\ EInit /\ SInit /\ CInit /\ BInit /\ KInit

OfferStep == OfferNext /\ UNCHANGED <<dvars, lvars, evars, svars, cvars, bvars, kvars>>

SpecOffer == OfferInit /\ [][OfferStep]_vars

\* a client that puts the button into a tree, places the button and its
\* parent, may disable the button, and then delivers mouse events to it
ButtonNext ==
    \/ bret.op = "none" /\ AddChild(1, 2) /\ UNCHANGED bvars
    \/ bret.op = "none" /\ AddChild(3, 1) /\ UNCHANGED bvars
    \/ bret.op = "none" /\ UNCHANGED bvars
                        /\ \E w \in {1, 2}, r \in RectInputs : SetBounds(w, r)
    \/ bret.op = "none" /\ SetWidgetEnabled(2, FALSE) /\ UNCHANGED bvars
    \/ \E w \in Buttons, ev \in ButtonEvents : ButtonMouseEvent(w, ev)

ButtonInit == BaseInit /\ DInit /\ LInit /\ EInit /\ SInit /\ CInit /\ BInit /\ KInit

ButtonStep == ButtonNext /\ UNCHANGED <<dvars, lvars, evars, svars, cvars, kvars>>

SpecButton == ButtonInit /\ [][ButtonStep]_vars

\* a client that sets, toggles and clicks a CheckBox in both modes, enabled
\* or disabled, and clears its dirty flag
CheckBoxNext ==
    \/ \E w \in CheckBoxes, b \in BOOLEAN : SetChecked(w, b)
    \/ \E w \in CheckBoxes : Toggle(w)
    \/ \E w \in CheckBoxes, b \in BOOLEAN : SetTristate(w, b)
    \/ \E w \in CheckBoxes, n \in -1..3 : SetState(w, n)
    \/ \E w \in CheckBoxes, b \in {"left", "right"} : CheckBoxMousePress(w, b)
    \/ \E w \in CheckBoxes, k \in Keys : CheckBoxKeyPress(w, k)
    \/ \E w \in CheckBoxes, v \in BOOLEAN :
          SetWidgetEnabled(w, v) /\ UNCHANGED kvars
    \/ \E w \in CheckBoxes : ClearDirty(w) /\ UNCHANGED kvars

CheckBoxInit ==
    BaseInit /\ DInit /\ LInit /\ EInit /\ SInit /\ CInit /\ BInit /\ KInit

CheckBoxStep ==
    CheckBoxNext /\ UNCHANGED <<dvars, lvars, evars, svars, cvars, bvars>>

SpecCheckBox == CheckBoxInit /\ [][CheckBoxStep]_vars

\* ================================================================ claims
SetMax(S) == CHOOSE m \in S : \A k \in S : k <= m

\* half-open containment written out: left and top edges inside, right and
\* bottom edges outside
InBounds(w, p) ==
    /\ bounds[w].x <= p.x /\ p.x < bounds[w].x + bounds[w].w
    /\ bounds[w].y <= p.y /\ p.y < bounds[w].y + bounds[w].h

\* indices of the children of w that yield a hit for the point q
HittingChildren(w, q) ==
    { i \in 1..Len(children[w]) :
        LET r == HitTest(children[w][i], q) IN r.ok /\ r.hit # Null }

\* C1: for a visible widget W and a point p inside W's half-open bounds,
\* W.hit_test(p) is the hit of the last-added child that yields a hit for
\* p - W.position, and W itself when no child yields a hit; it is null when
\* W is invisible or p is outside W's bounds.
C1_HitTestFrontmost ==
    \A w \in Widgets, p \in Points :
        LET r == HitTest(w, p)
            q == Pt(p.x - bounds[w].x, p.y - bounds[w].y)
            hits == HittingChildren(w, q)
        IN  r.ok =>
              IF "visible" \notin state[w] \/ ~InBounds(w, p)
              THEN r.hit = Null
              ELSE IF hits = {}
                   THEN r.hit = w
                   ELSE r.hit = HitTest(children[w][SetMax(hits)], q).hit

\* a hit test has just returned the last-added of two different overlapping
\* children, both of which yield a hit
C1_Witness ==
    /\ ret.op = "hit_test"
    /\ ~hung
    /\ \E w \in Widgets, p \in Points :
          /\ Len(children[w]) = 2
          /\ children[w][1] # children[w][2]
          /\ "visible" \in state[w] /\ InBounds(w, p)
          /\ HittingChildren(w, Pt(p.x - bounds[w].x, p.y - bounds[w].y)) = {1, 2}
          /\ HitTest(w, p).hit = children[w][2]
          /\ ret.hit = children[w][2]

\* the parent_ chain of w: w, its parent, its parent's parent, ...
RECURSIVE ChainUp(_, _, _)
ChainUp(par, w, n) ==
    IF n = 0 \/ w = Null THEN {} ELSE {w} \cup ChainUp(par, par[w], n - 1)

AncestorsOrSelf(par, w) == ChainUp(par, w, NumWidgets + 1)
Ancestors(par, w) == ChainUp(par, par[w], NumWidgets + 1)

\* every dirty widget has only dirty ancestors
DirtyClosed(st, par) ==
    \A w \in Widgets :
        "dirty" \in st[w] => \A a \in Ancestors(par, w) : "dirty" \in st[a]

\* a step of a mutator that reaches mark_dirty on receiver w
MarksDirty(w) ==
    \/ MarkDirty(w)
    \/ \E v \in BOOLEAN : SetVisible(w, v)
    \/ \E c \in Widgets \ {w} : AddChild(w, c)
    \/ \E c \in Widgets : find_child(children[w], c, 1) # 0 /\ RemoveChild(w, c)

\* C2: mark_dirty, and every mutator that calls it, leaves the widget and
\* every ancestor up to the root dirty; and no step other than render or
\* clear_dirty breaks "every dirty widget has only dirty ancestors".
C2_DirtyPropagates ==
    [][ /\ \A w \in Widgets :
              (MarksDirty(w) /\ ~hung') =>
                  \A a \in AncestorsOrSelf(parent', w) : "dirty" \in state'[a]
        /\ ( /\ DirtyClosed(state, parent)
             /\ ~hung'
             /\ \A w \in Widgets : ~RenderWidget(w) /\ ~ClearDirty(w) )
           => DirtyClosed(state', parent')
      ]_wvars

\* a widget two levels below the root is dirty together with its parent and
\* its grandparent
C2_Witness ==
    /\ ~hung
    /\ ret.op = "mark_dirty"
    /\ \E w \in Widgets :
          /\ parent[w] # Null
          /\ parent[parent[w]] # Null
          /\ parent[parent[w]] # w
          /\ \A a \in AncestorsOrSelf(parent, w) : "dirty" \in state[a]

\* the widgets a render of w visits: w if visible, and every widget reached
\* from it through children_ entries along visible widgets only
RECURSIVE VisitedFrom(_, _)
VisitedFrom(S, n) ==
    IF n = 0 THEN S
    ELSE VisitedFrom(S \cup { c \in Widgets :
                                 /\ "visible" \in state[c]
                                 /\ \E u \in S, i \in 1..NumWidgets * MaxEdges :
                                       i <= Len(children[u]) /\ children[u][i] = c },
                     n - 1)

Visited(w) ==
    IF "visible" \in state[w] THEN VisitedFrom({w}, NumWidgets) ELSE {}

\* C10: a render that returns clears the dirty flag of exactly the widgets it
\* visits and changes no other flag; a render of an invisible widget changes
\* nothing, so hidden subtrees keep their dirty flags.
C10_RenderClearsVisited ==
    [][ \A w \in Widgets :
            (RenderWidget(w) /\ ~hung') =>
                \A u \in Widgets :
                    state'[u] = IF u \in Visited(w) THEN state[u] \ {"dirty"}
                                ELSE state[u]
      ]_wvars

\* after a render the root and its visible child are clean while a hidden
\* child of the root, and the widget below it, are still dirty
C10_Witness ==
    /\ ret.op = "render"
    /\ ~hung
    /\ \E r \in Widgets, h \in Widgets :
          /\ parent[h] = r
          /\ find_child(children[r], h, 1) # 0
          /\ "visible" \in state[r] /\ "dirty" \notin state[r]
          /\ "visible" \notin state[h] /\ "dirty" \in state[h]

SetMin(S) == CHOOSE m \in S : \A k \in S : m <= k

\* the widgets below and including w in depth-first, children-first order
RECURSIVE PostOrder(_, _)
RECURSIVE PostOrderKids(_, _, _)
PostOrder(w, fuel) ==
    IF fuel = 0 THEN <<>>
    ELSE PostOrderKids(children[w], 1, fuel - 1) \o <<w>>

PostOrderKids(s, i, fuel) ==
    IF i > Len(s) THEN <<>>
    ELSE PostOrder(s[i], fuel) \o PostOrderKids(s, i + 1, fuel)

\* the own handler of u returns true for ev
Consumes(u, ev) ==
    hooks[u] /\ ev.type \in {"mouse", "keyboard"} /\ ev.sub = "press"

\* C3: on_event routes depth-first and children-first; the own handlers run
\* in that order up to and including the first one that returns true, none
\* runs after it (no later sibling, no ancestor on the call path), and
\* on_event returns true exactly when some handler consumed the event.
C3_ChildrenFirstConsume ==
    \A w \in Widgets, ev \in Events :
        LET r == OnEvent(w, ev)
            po == PostOrder(w, Fuel)
            cons == { i \in 1..Len(po) : Consumes(po[i], ev) }
        IN  r.ok =>
              IF ev.type \notin {"mouse", "keyboard"}
              THEN r.trace = <<>> /\ ~r.consumed
              ELSE IF cons = {}
                   THEN r.trace = po /\ ~r.consumed
                   ELSE r.trace = SubSeq(po, 1, SetMin(cons)) /\ r.consumed

\* an event was consumed by the first of two children although the second
\* child and the parent have consuming handlers too
C3_Witness ==
    /\ ret.op = "on_event"
    /\ ret.consumed
    /\ ~hung
    /\ \E w \in Widgets :
          /\ Len(children[w]) = 2
          /\ children[w][1] # children[w][2]
          /\ hooks[w] /\ hooks[children[w][1]] /\ hooks[children[w][2]]
          /\ OnEvent(w, [type |-> "mouse", sub |-> "press"]).trace
                = <<children[w][1]>>

\* the invocation records of a listener collection, in stored order
Tagged(ls, coll) ==
    [i \in 1..Len(ls) |-> [lid |-> ls[i].lid, prio |-> ls[i].prio,
                           coll |-> coll]]

\* C4: dispatch_event on an enabled dispatcher invokes the global listeners,
\* then the listeners registered for the event's own type, and stops after
\* the first listener that returns true; listeners of other types are never
\* invoked.
C4_GlobalsThenType ==
    [][ \A t \in EvTypes :
            (DispatchEvent(t) /\ enabled) =>
                LET all == global_listeners \o listeners[t]
                    tags == Tagged(global_listeners, "global")
                                \o Tagged(listeners[t], t)
                    cons == { i \in 1..Len(all) : all[i].consume }
                    n == IF cons = {} THEN Len(all) ELSE SetMin(cons)
                IN  dcall'.inv = SubSeq(tags, 1, n)
      ]_vars

\* a dispatch invoked a global listener and then a listener of the event's
\* type that was registered before it and consumed the event, while a
\* listener of another type exists and was not invoked
C4_Witness ==
    /\ dcall.op = "dispatch_event"
    /\ Len(dcall.inv) = 2
    /\ dcall.inv[1].coll = "global"
    /\ dcall.inv[2].coll # "global"
    /\ dcall.inv[2].lid < dcall.inv[1].lid
    /\ \E t \in EvTypes \ {dcall.inv[2].coll} : listeners[t] # <<>>

\* C5: the global collection and every per-type collection are held in
\* non-increasing priority order whatever the registration order, and the
\* listeners of one collection are invoked in that order.
C5_PriorityOrder ==
    /\ \A i, j \in 1..Len(global_listeners) :
          i < j => global_listeners[i].prio >= global_listeners[j].prio
    /\ \A t \in EvTypes : \A i, j \in 1..Len(listeners[t]) :
          i < j => listeners[t][i].prio >= listeners[t][j].prio
    /\ \A i, j \in 1..Len(dcall.inv) :
          (i < j /\ dcall.inv[i].coll = dcall.inv[j].coll)
              => dcall.inv[i].prio >= dcall.inv[j].prio

\* a dispatch invoked, within one collection, a listener of higher priority
\* before a listener of lower priority that was registered earlier
C5_Witness ==
    /\ dcall.op = "dispatch_event"
    /\ \E i, j \in 1..Len(dcall.inv) :
          /\ i < j
          /\ dcall.inv[i].coll = dcall.inv[j].coll
          /\ dcall.inv[i].prio > dcall.inv[j].prio
          /\ dcall.inv[i].lid > dcall.inv[j].lid

\* C6: push_event at or above capacity leaves the queue unchanged and adds
\* exactly one to events_dropped; below capacity it appends the event at the
\* tail, leaves events_dropped unchanged, and the queue is then no longer
\* than max_queue_size.
C6_PushDropsAtCapacity ==
    [][ \A t \in EvTypes :
            PushEvent(t) =>
                IF Len(event_queue) >= max_queue_size
                THEN /\ event_queue' = event_queue
                     /\ events_dropped' = events_dropped + 1
                ELSE /\ Len(event_queue') = Len(event_queue) + 1
                     /\ SubSeq(event_queue', 1, Len(event_queue)) = event_queue
                     /\ event_queue'[Len(event_queue')].type = t
                     /\ events_dropped' = events_dropped
                     /\ Len(event_queue') <= max_queue_size
      ]_vars

\* a push has just been rejected by a full, non-empty queue
C6_Witness ==
    /\ dcall.op = "push_event"
    /\ event_queue # <<>>
    /\ Len(event_queue) = max_queue_size
    /\ events_dropped >= 1

\* C7 as stated: the counters are exact since the last reset_stats, so that
\* (number of push_event calls) = queue_size + events_processed +
\* events_dropped + (events discarded by clear_queue), the calls and the
\* discards counted either since construction or since the last reset_stats.
C7_AsStated ==
    ~dhung =>
        /\ events_dropped = rejected
        /\ events_processed = dequeued
        /\ \/ pushed = Len(event_queue) + events_processed + events_dropped
                          + cleared
           \/ pushedSince = Len(event_queue) + events_processed
                               + events_dropped + clearedSince

\* C7 amended: the counters are exact since the last reset_stats, and with
\* the calls and discards counted since construction, (number of push_event
\* calls) = queue_size + events_processed + events_dropped + (events
\* discarded by clear_queue) + (counts zeroed by reset_stats).
C7_CountersExact ==
    ~dhung =>
        /\ events_dropped = rejected
        /\ events_processed = dequeued
        /\ pushed = Len(event_queue) + events_processed + events_dropped
                       + cleared + lost

\* after a reset_stats zeroed a non-zero counter, an event was processed
\* and another one is queued
C7_Witness ==
    /\ ~dhung
    /\ lost >= 1
    /\ events_processed >= 1
    /\ event_queue # <<>>

\* C8: process_events dispatches in push order: the ids of the dispatched
\* events, in dispatch order, are strictly increasing, so no event is
\* dispatched before an earlier-pushed one and none is dispatched twice.
C8_FifoDispatch ==
    \A i, j \in 1..Len(plog) : i < j => plog[i] < plog[j]

\* one process_events call has dispatched two queued events
C8_Witness ==
    /\ dcall.op = "process_events"
    /\ ~dhung
    /\ Len(plog) = 2
    /\ events_processed = 2
    /\ lost = 0

\* C9 as stated: while disabled, push_event, process_events and
\* dispatch_event change neither the queue nor the counters and invoke no
\* listener.
C9_AsStated ==
    [][ ( /\ ~enabled
          /\ \/ \E t \in EvTypes : PushEvent(t)
             \/ ProcessEvents
             \/ \E t \in EvTypes : DispatchEvent(t) )
        => /\ UNCHANGED <<event_queue, events_processed, events_dropped>>
           /\ dcall'.inv = <<>>
      ]_vars

\* C9 amended: while disabled, process_events and dispatch_event change
\* neither the queue nor the counters and invoke no listener; push_event is
\* not affected by the flag: it invokes no listener and enqueues, or drops
\* and counts at capacity, as on an enabled dispatcher.
C9_DisabledNoProcessing ==
    [][ /\ ( /\ ~enabled
             /\ \/ ProcessEvents
                \/ \E t \in EvTypes : DispatchEvent(t) )
           => /\ UNCHANGED <<event_queue, events_processed, events_dropped>>
              /\ dcall'.inv = <<>>
        /\ \A t \in EvTypes :
              (~enabled /\ PushEvent(t)) =>
                  /\ dcall'.inv = <<>>
                  /\ events_processed' = events_processed
                  /\ IF Len(event_queue) >= max_queue_size
                     THEN /\ event_queue' = event_queue
                          /\ events_dropped' = events_dropped + 1
                     ELSE /\ Len(event_queue') = Len(event_queue) + 1
                          /\ events_dropped' = events_dropped
      ]_vars

\* on a disabled dispatcher a process_events or dispatch_event call has
\* returned, leaving a queued event whose listener was not invoked
C9_Witness ==
    /\ ~enabled
    /\ dcall.op \in {"process_events", "dispatch_event"}
    /\ dcall.inv = <<>>
    /\ event_queue # <<>>
    /\ listeners[Head(event_queue).type] # <<>>
    /\ events_processed = 0

\* the draw / clear_dirty records of rendering the children of w from index
\* i on, one child after the other in insertion order
RECURSIVE ChildLogs(_, _)
ChildLogs(w, i) ==
    IF i > Len(children[w]) THEN <<>>
    ELSE Render(children[w][i]).log \o ChildLogs(w, i + 1)

\* no widget is reached twice from w through children_ entries
IsTree(w) ==
    LET po == PostOrder(w, Fuel)
    IN  \A i, j \in 1..Len(po) : i # j => po[i] # po[j]

\* position of a record in a log, 0 when absent
LogIdx(log, rec) ==
    IF \E i \in 1..Len(log) : log[i] = rec
    THEN CHOOSE i \in 1..Len(log) : log[i] = rec
    ELSE 0

\* C11: a render of an invisible widget draws nothing; a render of a visible
\* widget is its own draw, then the renders of its children one after the
\* other in insertion order, then its own clear_dirty. Hence, where no widget
\* is reached twice, every visited widget is drawn exactly once, before each
\* of its descendants, a sibling's whole subtree is finished before the next
\* sibling is drawn, a widget's flag is cleared after those of its
\* descendants, and nothing invisible or below an invisible widget is drawn.
C11_RenderPreOrder ==
    \A w \in Widgets :
        LET r == Render(w)
            Dr(u) == LogIdx(r.log, <<"draw", u>>)
            Cl(u) == LogIdx(r.log, <<"clear", u>>)
        IN  r.ok =>
              /\ r.log = IF "visible" \in state[w]
                         THEN <<(<<"draw", w>>)>> \o ChildLogs(w, 1)
                                  \o <<(<<"clear", w>>)>>
                         ELSE <<>>
              /\ IsTree(w) =>
                    /\ { r.log[i][2] : i \in { k \in 1..Len(r.log) :
                                                  r.log[k][1] = "draw" } }
                          = Visited(w)
                    /\ Len(r.log) = 2 * Cardinality(Visited(w))
                    /\ \A u \in Visited(w) :
                          /\ 0 < Dr(u) /\ Dr(u) < Cl(u)
                          /\ \A d \in Visited(u) \ {u} :
                                Dr(u) < Dr(d) /\ Cl(d) < Cl(u)
                          /\ \A i, j \in 1..Len(children[u]) :
                                ( /\ i < j
                                  /\ children[u][i] \in Visited(w)
                                  /\ children[u][j] \in Visited(w) )
                                => Cl(children[u][i]) < Dr(children[u][j])

\* a render has left a widget and its two different visible children clean,
\* having drawn the parent, then the first-added child, then the last-added
C11_Witness ==
    /\ ret.op = "render"
    /\ ~hung
    /\ \E w \in Widgets :
          /\ Len(children[w]) = 2
          /\ children[w][1] # children[w][2]
          /\ IsTree(w)
          /\ \A u \in {w, children[w][1], children[w][2]} :
                "visible" \in state[u] /\ "dirty" \notin state[u]
          /\ Render(w).log = << <<"draw", w>>,
                                <<"draw", children[w][1]>>,
                                <<"clear", children[w][1]>>,
                                <<"draw", children[w][2]>>,
                                <<"clear", children[w][2]>>,
                                <<"clear", w>> >>

\* the widgets reached from the set S through children_ entries, visible or not
RECURSIVE BelowFrom(_, _)
BelowFrom(S, n) ==
    IF n = 0 THEN S
    ELSE BelowFrom(S \cup { c \in Widgets :
                               \E u \in S, i \in 1..NumWidgets * MaxEdges :
                                   i <= Len(children[u]) /\ children[u][i] = c },
                   n - 1)

\* w and everything below it
Below(w) == BelowFrom({w}, NumWidgets)

\* C12: hit_test on an invisible widget returns null, and a widget returned
\* by W.hit_test is visible and is reached from W through visible widgets
\* only; where no widget is reached twice from W, every widget of W's subtree
\* that has the returned widget below it is visible.
C12_HitNeverInvisible ==
    \A w \in Widgets, p \in Points :
        LET r == HitTest(w, p)
        IN  r.ok =>
              /\ "visible" \notin state[w] => r.hit = Null
              /\ r.hit # Null =>
                    /\ "visible" \in state[r.hit]
                    /\ r.hit \in Visited(w)
                    /\ IsTree(w) =>
                          \A a \in Below(w) :
                              r.hit \in Below(a) => "visible" \in state[a]

\* a hit test has returned the first-added child because the last-added
\* child, whose bounds contain the point too, is invisible
C12_Witness ==
    /\ ret.op = "hit_test"
    /\ ~hung
    /\ \E w \in Widgets, p \in Points :
          LET q == Pt(p.x - bounds[w].x, p.y - bounds[w].y)
          IN  /\ Len(children[w]) = 2
              /\ children[w][1] # children[w][2]
              /\ "visible" \notin state[children[w][2]]
              /\ InBounds(children[w][2], q)
              /\ HitTest(w, p).hit = children[w][1]
              /\ ret.hit = children[w][1]

\* sum of the positions of the widgets in S
RECURSIVE SumPos(_)
SumPos(S) ==
    IF S = {} THEN Pt(0, 0)
    ELSE LET u == CHOOSE x \in S : TRUE
             rest == SumPos(S \ {u})
         IN  Pt(bounds[u].x + rest.x, bounds[u].y + rest.y)

\* the widgets of w's subtree that have u properly below them
ProperAncestorsIn(w, u) == { a \in Below(w) \ {u} : u \in Below(a) }

\* below w no widget is reached twice and every parent_ designates the
\* widget whose children_ holds the widget
ConsistentBelow(w) ==
    /\ IsTree(w)
    /\ \A a \in Below(w) : \A i \in 1..Len(children[a]) :
          parent[children[a][i]] = a

\* p lies in the half-open rectangle of u's size placed at o
InRectAt(o, u, p) ==
    /\ o.x <= p.x /\ p.x < o.x + bounds[u].w
    /\ o.y <= p.y /\ p.y < o.y + bounds[u].h

\* C13: where no widget is reached twice from R, a widget W returned by
\* R.hit_test(P) has P minus the sum of the positions of W's proper ancestors
\* in R's subtree inside W's bounds; and where the parent pointers agree
\* with the child lists, P, taken in the coordinate space of R's parent,
\* lies inside the rectangle of W's size placed at W.absolute_position().
C13_HitAgreesWithAbsolute ==
    \A w \in Widgets, p \in Points :
        LET r == HitTest(w, p)
            off == SumPos(ProperAncestorsIn(w, r.hit))
            aw == absolute_position(bounds, parent, w, Fuel)
            ah == absolute_position(bounds, parent, r.hit, Fuel)
            base == Pt(aw.p.x - bounds[w].x, aw.p.y - bounds[w].y)
        IN  (r.ok /\ r.hit # Null /\ IsTree(w)) =>
              /\ InBounds(r.hit, Pt(p.x - off.x, p.y - off.y))
              /\ (ConsistentBelow(w) /\ aw.ok) =>
                    /\ ah.ok
                    /\ InRectAt(ah.p, r.hit, Pt(p.x + base.x, p.y + base.y))

\* a hit test on a root has returned a widget two levels below it, the root
\* or the widget in between being placed away from the origin
C13_Witness ==
    /\ ret.op = "hit_test"
    /\ ~hung
    /\ \E w \in Widgets, p \in Points :
          /\ parent[w] = Null
          /\ ConsistentBelow(w)
          /\ Len(children[w]) = 1
          /\ Len(children[children[w][1]]) = 1
          /\ bounds[w].x + bounds[children[w][1]].x > 0
          /\ HitTest(w, p).hit = children[children[w][1]][1]
          /\ ret.hit = children[children[w][1]][1]

\* the indices at which c occurs in the child list s
Occurrences(s, c) == { i \in 1..Len(s) : s[i] = c }

\* s without its entry at index i
Without(s, i) == SubSeq(s, 1, i - 1) \o SubSeq(s, i + 1, Len(s))

\* C14: a returning add_child(c) with c non-null and not the receiver
\* appends c as the last child, sets c's parent to the receiver and leaves
\* the receiver and all its ancestors dirty; a returning remove_child(c) of
\* a present c removes its first entry, resets c's parent to null and leaves
\* the receiver and all its ancestors dirty; neither touches another child
\* list, another parent pointer or any bounds; add_child(null),
\* add_child(self) and remove_child of an absent widget change nothing.
C14_AddRemoveChild ==
    [][ \A p \in Widgets, c \in Widgets \cup {Null} :
          /\ (AddChild(p, c) /\ ~hung') =>
                IF c # Null /\ c # p
                THEN /\ children'[p] = Append(children[p], c)
                     /\ parent'[c] = p
                     /\ \A u \in Widgets \ {p} : children'[u] = children[u]
                     /\ \A u \in Widgets \ {c} : parent'[u] = parent[u]
                     /\ \A a \in AncestorsOrSelf(parent', p) :
                           "dirty" \in state'[a]
                     /\ bounds' = bounds
                ELSE UNCHANGED <<parent, children, bounds, state>>
          /\ (RemoveChild(p, c) /\ ~hung') =>
                IF Occurrences(children[p], c) # {}
                THEN /\ children'[p] =
                           Without(children[p],
                                   SetMin(Occurrences(children[p], c)))
                     /\ parent'[c] = Null
                     /\ \A u \in Widgets \ {p} : children'[u] = children[u]
                     /\ \A u \in Widgets \ {c} : parent'[u] = parent[u]
                     /\ \A a \in AncestorsOrSelf(parent', p) :
                           "dirty" \in state'[a]
                     /\ bounds' = bounds
                ELSE UNCHANGED <<parent, children, bounds, state>>
      ]_wvars

\* a widget holds two different children, the last-added one pointing to it
\* and the other one with its parent reset by a remove_child that took its
\* first entry, and is dirty
C14_Witness ==
    /\ ~hung
    /\ \E p \in Widgets :
          /\ Len(children[p]) = 2
          /\ children[p][1] # children[p][2]
          /\ parent[children[p][2]] = p
          /\ parent[children[p][1]] = Null
          /\ "dirty" \in state[p]

\* sum of F[i] over the indices i in S
RECURSIVE SumIdx(_, _)
SumIdx(S, F) ==
    IF S = {} THEN 0
    ELSE LET i == CHOOSE x \in S : TRUE IN F[i] + SumIdx(S \ {i}, F)

\* v brought into [lo, hi]
Within(v, lo, hi) == IF v < lo THEN lo ELSE IF v > hi THEN hi ELSE v

\* the size and position fields along the main axis of box w
MainSize(w) == IF kind[w] = "hbox" THEN "w" ELSE "h"
MainPos(w) == IF kind[w] = "hbox" THEN "x" ELSE "y"

\* entries of w's child list that are visible, and those that stretch
VisibleIdx(w) ==
    { i \in 1..Len(children[w]) : "visible" \in state[children[w][i]] }

StretchIdx(w) ==
    { i \in VisibleIdx(w) :
        LET al == alignment[children[w][i]]
        IN  /\ al.main_axis = "end"
            /\ \/ kind[w] = "hbox" /\ al.orientation = "horizontal"
               \/ kind[w] = "vbox" /\ al.orientation = "vertical" }

\* main-axis space of box w left over by padding, spacing and the preferred
\* sizes of the visible non-stretch children
Leftover(w) ==
    bounds[w][MainSize(w)] - 2 * padding[w]
        - spacing[w] * (Cardinality(VisibleIdx(w)) - 1)
        - SumIdx(VisibleIdx(w) \ StretchIdx(w),
                 [i \in 1..Len(children[w]) |->
                     preferred_size[children[w][i]][MainSize(w)]])

\* what the visible entry i of box w asks for before clamping: an equal part
\* of the leftover for a stretch child, its preferred size otherwise
Wanted(w, i) ==
    IF i \in StretchIdx(w)
    THEN Leftover(w) \div Cardinality(StretchIdx(w))
    ELSE preferred_size[children[w][i]][MainSize(w)]

\* no clamp is active in box w: every visible child's wanted size lies
\* within its own limits, and the leftover divides evenly
NoClamp(w) ==
    /\ \A i \in VisibleIdx(w) :
          /\ min_size[children[w][i]][MainSize(w)] <= Wanted(w, i)
          /\ Wanted(w, i) <= max_size[children[w][i]][MainSize(w)]
    /\ StretchIdx(w) # {} =>
          Leftover(w) % Cardinality(StretchIdx(w)) = 0

\* C15: after layout of an HBox / VBox every visible stretch child has the
\* main-axis size leftover / (number of visible stretch children), and every
\* other visible child its preferred size, each clamped to the child's own
\* min/max; when no clamp is active and a stretch child exists, padding,
\* children and spacing add up to the container's main size; without a
\* stretch child the last visible child ends leftover + padding before the
\* container's end.
C15_StretchTakesLeftover ==
    [][ \A w \in Widgets :
          (Layout(w) /\ ~hung' /\ kind[w] # "widget") =>
            LET mf == MainSize(w)
                kid(i) == children[w][i]
                V == VisibleIdx(w)
                last == SetMax(V)
            IN  /\ \A i \in V :
                      bounds'[kid(i)][mf] =
                          Within(Wanted(w, i), min_size[kid(i)][mf],
                                 max_size[kid(i)][mf])
                /\ (V # {} /\ NoClamp(w)) =>
                      IF StretchIdx(w) # {}
                      THEN 2 * padding[w]
                             + SumIdx(V, [i \in 1..Len(children[w]) |->
                                            bounds'[kid(i)][mf]])
                             + spacing[w] * (Cardinality(V) - 1)
                           = bounds[w][mf]
                      ELSE bounds'[kid(last)][MainPos(w)]
                             + bounds'[kid(last)][mf]
                           = bounds[w][mf] - padding[w] - Leftover(w)
      ]_vars

\* a layout has just shared the leftover of a padded, spaced box equally
\* between two different visible stretch children, no clamp being active
C15_Witness ==
    /\ ret.op = "layout"
    /\ ~hung
    /\ \E w \in Widgets :
          /\ kind[w] # "widget"
          /\ padding[w] > 0 /\ spacing[w] > 0
          /\ Len(children[w]) = 2
          /\ children[w][1] # children[w][2]
          /\ StretchIdx(w) = {1, 2}
          /\ NoClamp(w)
          /\ Leftover(w) > 0
          /\ \A i \in {1, 2} :
                2 * bounds[children[w][i]][MainSize(w)] = Leftover(w)

\* the visible entries of box w are different widgets
DistinctVisible(w) ==
    \A i, j \in VisibleIdx(w) : i # j => children[w][i] # children[w][j]

\* C16: after layout of an HBox / VBox whose visible children are different
\* widgets, the first visible child starts at padding and every following
\* visible child at the previous visible child's start + its main-axis
\* size + spacing, so that with spacing >= 0 an earlier visible child ends
\* where or before every later one starts; an invisible child keeps its
\* bounds.
C16_SequentialPlacement ==
    [][ \A w \in Widgets :
          (Layout(w) /\ ~hung' /\ kind[w] # "widget") =>
            LET mf == MainSize(w)
                pf == MainPos(w)
                kid(i) == children[w][i]
                V == VisibleIdx(w)
            IN  /\ \A i \in 1..Len(children[w]) :
                      i \notin V => bounds'[kid(i)] = bounds[kid(i)]
                /\ (V # {} /\ DistinctVisible(w)) =>
                      /\ bounds'[kid(SetMin(V))][pf] = padding[w]
                      /\ \A i, j \in V :
                            (i < j /\ \A k \in V : ~(i < k /\ k < j)) =>
                                bounds'[kid(j)][pf] =
                                    bounds'[kid(i)][pf] + bounds'[kid(i)][mf]
                                        + spacing[w]
                      /\ spacing[w] >= 0 =>
                            \A i, j \in V :
                                i < j => bounds'[kid(i)][pf] + bounds'[kid(i)][mf]
                                            <= bounds'[kid(j)][pf]
      ]_vars

\* a layout has just placed two different visible children of a padded,
\* spaced box one behind the other, the first one having a size
C16_Witness ==
    /\ ret.op = "layout"
    /\ ~hung
    /\ \E w \in Widgets :
          LET a == children[w][1]
              b == children[w][2]
          IN  /\ kind[w] # "widget"
              /\ padding[w] > 0 /\ spacing[w] > 0
              /\ Len(children[w]) = 2
              /\ a # b
              /\ VisibleIdx(w) = {1, 2}
              /\ bounds[a][MainSize(w)] > 0
              /\ bounds[a][MainPos(w)] = padding[w]
              /\ bounds[b][MainPos(w)] =
                     padding[w] + bounds[a][MainSize(w)] + spacing[w]

\* C17: after layout of an HBox / VBox the main-axis size of every visible
\* child whose min does not exceed its max lies within [min, max] of that
\* child, whether it stretches or not and whatever the container's size.
C17_SizeWithinLimits ==
    [][ \A w \in Widgets :
          (Layout(w) /\ ~hung' /\ kind[w] # "widget") =>
            \A i \in VisibleIdx(w) :
                LET c == children[w][i]
                    mf == MainSize(w)
                IN  min_size[c][mf] <= max_size[c][mf] =>
                      /\ min_size[c][mf] <= bounds'[c][mf]
                      /\ bounds'[c][mf] <= max_size[c][mf]
      ]_vars

\* a layout of a box too small for its content has just given a stretch
\* child its minimum and a non-stretch child, which prefers more than its
\* maximum, its maximum
C17_Witness ==
    /\ ret.op = "layout"
    /\ ~hung
    /\ \E w \in Widgets :
          LET mf == MainSize(w)
          IN  /\ kind[w] # "widget"
              /\ Leftover(w) < 0
              /\ \E i \in StretchIdx(w) :
                    /\ min_size[children[w][i]][mf] > 0
                    /\ bounds[children[w][i]][mf] = min_size[children[w][i]][mf]
              /\ \E i \in VisibleIdx(w) \ StretchIdx(w) :
                    /\ preferred_size[children[w][i]][mf]
                           > max_size[children[w][i]][mf]
                    /\ bounds[children[w][i]][mf] = max_size[children[w][i]][mf]

\* C18: an Event built from a payload p of kind K (WindowEvent, MouseEvent
\* or KeyboardEvent) has K's type tag, so exactly one of is_none, is_window,
\* is_mouse, is_keyboard is true, and it is K's; it holds alternative K;
\* get_if is null for every other kind; get<K> returns p.
C18_EventRoundTrip ==
    built.how = "payload" =>
        /\ built.alt \in PayloadAlts
        /\ event_type_of(evt) = TagOf(built.alt)
        /\ is_window(evt) <=> built.alt = "WindowEvent"
        /\ is_mouse(evt) <=> built.alt = "MouseEvent"
        /\ is_keyboard(evt) <=> built.alt = "KeyboardEvent"
        /\ ~is_none(evt)
        /\ holds(evt, built.alt)
        /\ \A other \in Alts \ {built.alt} :
              ~holds(evt, other) /\ get_if(evt, other) = NullPtr
        /\ get_if(evt, built.alt) = [null |-> FALSE, val |-> built.val]
        /\ get(evt, built.alt) = [thrown |-> FALSE, val |-> built.val]

\* an Event has been built from a press of the left button away from the
\* origin and returns that payload
C18_Witness ==
    /\ built.how = "payload"
    /\ built.alt = "MouseEvent"
    /\ built.val = [state |-> "press", button |-> "left",
                    position |-> Pt(1, 2)]
    /\ is_mouse(evt)
    /\ get(evt, "MouseEvent").val = built.val

\* entries of equal priority stand in registration order
StableOrder(ls) ==
    \A i, j \in 1..Len(ls) :
        (i < j /\ ls[i].prio = ls[j].prio) => ls[i].lid < ls[j].lid

\* C19: the re-sort on add_listener / add_global_listener never reorders two
\* listeners of the same priority: in the global collection and in every
\* per-type collection listeners of equal priority stand, and are invoked
\* by a dispatch, in registration order.
C19_EqualPriorityStable ==
    /\ StableOrder(global_listeners)
    /\ \A t \in EvTypes : StableOrder(listeners[t])
    /\ \A i, j \in 1..Len(dcall.inv) :
          ( /\ i < j
            /\ dcall.inv[i].coll = dcall.inv[j].coll
            /\ dcall.inv[i].prio = dcall.inv[j].prio )
          => dcall.inv[i].lid < dcall.inv[j].lid

\* C20: once a ScopedEventListener has been destroyed, dispatch_event no
\* longer invokes the callback it registered.
C20_ScopedRemovedOnDestroy ==
    [][ \A t \in EvTypes :
            DispatchEvent(t) =>
                \A i \in 1..Len(dcall'.inv) :
                    scoped[dcall'.inv[i].lid] # "destroyed"
      ]_vars


\* a call of one of the methods named by GatedOps
GatedCall ==
    \/ \E hr \in HResults : EndDraw(hr)
    \/ \E color \in Colors : Clear(color)
    \/ SaveState
    \/ RestoreState
    \/ Translate
    \/ Scale
    \/ Rotate
    \/ ResetTransform
    \/ SetClipRect
    \/ ResetClip
    \/ \E m \in DrawOps, color \in Colors, n \in {1, 3} : DrawCall(m, color, n)

\* C21: while is_drawing is false, end_draw, clear, save_state,
\* restore_state, the transform and clip calls and every shape and text draw
\* call leave the context exactly as it was and signal nothing.
C21_MisuseIgnored ==
    [][ (GatedCall /\ ~ctx.is_drawing)
            => (ctx' = ctx /\ cret'.signal = "none")
      ]_vars

\* a draw call or state call was made outside a bracket, on a context that
\* holds saved and painted state from an earlier bracket
C21_Witness ==
    /\ cret.gated
    /\ ~cret.was_drawing
    /\ cret.signal = "none"
    /\ ~ctx.is_drawing
    /\ ctx.painted > 0
    /\ ctx.state_stack # <<>>


\* the widgets whose children list holds c
Holders(c) == {p \in Widgets : Occurrences(children[p], c) # {}}

\* C22: after any sequence of add_child and remove_child calls every widget
\* appears at most once in at most one children list, and its parent pointer
\* designates the widget whose children list holds it, null if none does.
C22_ConsistentForest ==
    ~hung =>
        \A c \in Widgets :
            /\ \A p \in Widgets : Cardinality(Occurrences(children[p], c)) <= 1
            /\ Cardinality(Holders(c)) <= 1
            /\ \A p \in Widgets : parent[c] = p <=> p \in Holders(c)
            /\ parent[c] = Null <=> Holders(c) = {}


\* C23: no widget is its own ancestor along parent_, and no call that walks
\* the parent chain or recurses over the children fails to return.
C23_AcyclicTerminates ==
    /\ \A w \in Widgets : w \notin Ancestors(parent, w)
    /\ ~hung


\* the ids in a log
Ids(log) == {log[i] : i \in 1..Len(log)}

\* C24: on an enabled dispatcher process_events returns, leaves the queue
\* empty, and has dispatched every event that was queued at the call and
\* every event a listener pushed during the call, the pushed ones after the
\* queued ones.
C24_ProcessEventsDrains ==
    [][ (ProcessEvents /\ enabled) =>
            LET new == SubSeq(plog', Len(plog) + 1, Len(plog'))
            IN  /\ ~dhung'
                /\ event_queue' = <<>>
                /\ Len(new) >= Len(event_queue)
                /\ \A i \in 1..Len(event_queue) : new[i] = event_queue[i].id
                /\ (pushed + 1)..pushed' \subseteq Ids(new)
      ]_vars


\* C25: queue_size() <= max_queue_size() in every state, whatever the order
\* of push_event, process_events, clear_queue and set_max_queue_size.
C25_QueueWithinMax == Len(event_queue) <= max_queue_size


\* the same widgets with every visible and enabled flag set
AllShown == [u \in Widgets |-> state[u] \cup {"visible", "enabled"}]

\* position in the children-first order of w of the child at index i
OfferIdx(w, i) ==
    Len(PostOrderKids(SubSeq(children[w], 1, i), 1, Fuel - 1))

\* C26: on_event offers a press event to every child in insertion order
\* whatever the child's visible and enabled flags and wherever a mouse
\* position lies: the handlers invoked and the result are those of the same
\* tree with every widget shown and enabled, they are the same for every
\* position, and a child none of whose predecessors consumes has its handler
\* invoked and, when it consumes, ends the routing before any later sibling.
C26_OfferedRegardless ==
    ~hung =>
    \A w \in Widgets, ev \in OfferEvents :
        LET r == on_event(state, parent, children, bounds, hooks, w, ev,
                          Fuel, <<>>)
            shown == on_event(AllShown, parent, children, bounds, hooks, w,
                              ev, Fuel, <<>>)
            po == PostOrder(w, Fuel)
        IN  r.ok =>
              /\ shown.ok /\ r.trace = shown.trace
              /\ r.consumed = shown.consumed
              /\ ev.type = "mouse" =>
                    \A q \in OfferPoints :
                        LET m == on_event(state, parent, children, bounds,
                                          hooks, w, [ev EXCEPT !.pos = q],
                                          Fuel, <<>>)
                        IN  m.trace = r.trace /\ m.consumed = r.consumed
              /\ \A i \in 1..Len(children[w]) :
                    LET k == OfferIdx(w, i)
                    IN  (\A j \in 1..(k - 1) : ~Consumes(po[j], ev)) =>
                            /\ Len(r.trace) >= k
                            /\ r.trace[k] = children[w][i]
                            /\ Consumes(children[w][i], ev) =>
                                  r.consumed /\ Len(r.trace) = k

\* an invisible, disabled child that no hit test of its parent returns and
\* no render of its parent draws has consumed a mouse press ahead of a
\* visible sibling added after it whose handler consumes too
C26_Witness ==
    /\ ret.op = "on_event"
    /\ ret.consumed
    /\ ~hung
    /\ \E w \in Widgets :
          /\ Len(children[w]) = 2
          /\ children[w][1] # children[w][2]
          /\ children[children[w][1]] = <<>>
          /\ state[children[w][1]] \cap {"visible", "enabled"} = {}
          /\ is_visible(state, w) /\ is_visible(state, children[w][2])
          /\ hooks[children[w][1]] /\ hooks[children[w][2]]
          /\ \A p \in OfferPoints :
                /\ HitTest(w, p).hit # children[w][1]
                /\ on_event(state, parent, children, bounds, hooks, w,
                            [type |-> "mouse", sub |-> "press", pos |-> p],
                            Fuel, <<>>).trace = <<children[w][1]>>
          /\ \A i \in 1..Len(Render(w).log) :
                Render(w).log[i][2] # children[w][1]


InButton(w, p) ==
    InRectAt(absolute_position(bounds, parent, w, Fuel).p, w, p)

\* C28: on an enabled Button a press never invokes on_click; a left release
\* inside the button's rectangle that directly follows a left press inside
\* it invokes on_click exactly once; a left release outside the rectangle,
\* or one that directly follows a mouse-leave, does not invoke it.
C28_ClickOnPressRelease ==
    [][ \A w \in Buttons, ev \in ButtonEvents :
            (ButtonMouseEvent(w, ev) /\ is_enabled(state, w) /\ ~hung') =>
                /\ ev.sub = "press" => clicks' = clicks
                /\ ( /\ ev.sub = "release" /\ ev.button = "left"
                     /\ InButton(w, ev.pos)
                     /\ bret.op = "on_mouse_event"
                     /\ bret.ev.sub = "press" /\ bret.ev.button = "left"
                     /\ InButton(w, bret.ev.pos) )
                      => clicks' = clicks + 1
                /\ ( /\ ev.sub = "release" /\ ev.button = "left"
                     /\ ~InButton(w, ev.pos) )
                      => clicks' = clicks
                /\ ( /\ ev.sub = "release" /\ ev.button = "left"
                     /\ bret.op = "on_mouse_event"
                     /\ bret.ev.sub = "leave" )
                      => clicks' = clicks
      ]_vars


\* a call of set_checked, toggle, set_state, on_mouse_press or on_key_press
CheckedCall ==
    \E w \in CheckBoxes :
        \/ \E b \in BOOLEAN : SetChecked(w, b)
        \/ Toggle(w)
        \/ \E n \in -1..3 : SetState(w, n)
        \/ \E b \in {"left", "right"} : CheckBoxMousePress(w, b)
        \/ \E k \in Keys : CheckBoxKeyPress(w, k)

\* C29: a call that changes the checked value invokes on_checked_changed
\* exactly once, a call that leaves it unchanged does not invoke it, in
\* two-state and in tristate mode.
C29_CallbackPerChange ==
    [][ CheckedCall =>
            kret'.calls = IF checked' # checked THEN 1 ELSE 0
      ]_vars

====
